---- MODULE Spec2Model ----
(***************************************************************************)
(* The four Streamlit dashboards of pandas-portfolio-projects as one state *)
(* machine.  A state is one browser session between two script runs: the   *)
(* CSV source, the st.cache_data memo of the load function, the values the *)
(* sidebar widgets returned in the last run, and what that run computed    *)
(* (the filtered DataFrame and the grouped summaries).  Each user          *)
(* interaction re-executes the whole script: one action per dashboard.     *)
(*                                                                         *)
(* Data encoding.  A cell is a set: NaN is {} and the value v is {v}.  A   *)
(* DataFrame is [kind, columns, rows]: columns is the ordered list of      *)
(* column names, rows the list of rows, a row a record column -> cell.     *)
(* A Series is a sequence of cells, a boolean mask a sequence of BOOLEAN.  *)
(***************************************************************************)
EXTENDS Integers, Sequences, FiniteSets, TLC

VARIABLES
    app,          \* the dashboard this session runs
    source,       \* the CSV file the dashboard reads
    cache,        \* the st.cache_data memo of the load function
    status,       \* how the last run ended: "ok", or the exception that ended it
    widgets,      \* the values the sidebar widgets returned in the last run
    filtered_df,  \* the filtered frame of the last run
    views,        \* the metrics and grouped summaries the last run rendered
    narrowed,     \* history: some run of the session showed fewer rows than loaded
    parses        \* history: how many times read_csv has parsed the source

vars == <<app, source, cache, status, widgets, filtered_df, views, narrowed, parses>>

\* ---------------------------------------------------------------- bounds
\* The largest number of data rows of a CSV source.
MaxRows == 2
\* Ages are stored in units of 1/AgeScale year (the Titanic data has 0.42, 28.5).
AgeScale == 2
\* The largest number of columns of a dataset that a CSV source may lack.
MaxAbsentCols == 2
\* The largest number of parses of the source that is followed.
MaxParses == 2

\* ------------------------------------------------------- pandas primitives
NaN == {}
Cell(v) == {v}
isna(c) == c = NaN
Val(c) == CHOOSE v \in c : TRUE

None == [kind |-> "None"]
\* The st.cache_data memo of a load function before its first call.
NotCached == [kind |-> "NotCached"]
DataFrame(columns, rows) == [kind |-> "DataFrame", columns |-> columns, rows |-> rows]
IsFrame(df) == df.kind = "DataFrame"

Range(s) == {s[i] : i \in 1..Len(s)}
HasCol(df, c) == c \in Range(df.columns)
\* df[c]
Col(df, c) == [i \in 1..Len(df.rows) |-> df.rows[i][c]]

RECURSIVE TakeRows(_, _, _)
TakeRows(rows, mask, i) ==
    IF i > Len(rows) THEN <<>>
    ELSE (IF mask[i] THEN <<rows[i]>> ELSE <<>>) \o TakeRows(rows, mask, i + 1)

\* The variant of boolean indexing that a sort of the result would give.
BoolIndexReversed(df, mask) ==
    LET kept == TakeRows(df.rows, mask, 1)
    IN  DataFrame(df.columns, [i \in 1..Len(kept) |-> kept[Len(kept) + 1 - i]])

\* df[mask]: the rows whose mask entry is True, in the order of df.
BoolIndex(df, mask) == DataFrame(df.columns, TakeRows(df.rows, mask, 1))

\* Series.isin(values): NaN matches a NaN among the values.
isin(series, values) == [i \in 1..Len(series) |-> series[i] \in values]

\* The variant with inclusive="left": the upper end is excluded.
betweenLeft(series, lo, hi) ==
    [i \in 1..Len(series) |->
        /\ ~isna(series[i])
        /\ lo <= Val(series[i])
        /\ Val(series[i]) < hi]

\* Series.between(lo, hi), inclusive="both" (the default): NaN compares False.
\* Numbers are compared in the unit of the column: lo, hi are scaled by the caller.
between(series, lo, hi) ==
    [i \in 1..Len(series) |->
        /\ ~isna(series[i])
        /\ lo <= Val(series[i])
        /\ Val(series[i]) <= hi]

MaskIsna(series) == [i \in 1..Len(series) |-> isna(series[i])]
\* The variant that combines two masks with | where the code has &.
MaskAndAsOr(a, b) == [i \in 1..Len(a) |-> a[i] \/ b[i]]
MaskAnd(a, b) == [i \in 1..Len(a) |-> a[i] /\ b[i]]
MaskOr(a, b) == [i \in 1..Len(a) |-> a[i] \/ b[i]]

\* Series.unique(): the distinct cells in order of first appearance, NaN included.
RECURSIVE UniqueFrom(_, _, _)
UniqueFrom(series, i, seen) ==
    IF i > Len(series) THEN <<>>
    ELSE IF series[i] \in seen THEN UniqueFrom(series, i + 1, seen)
    ELSE <<series[i]>> \o UniqueFrom(series, i + 1, seen \cup {series[i]})
unique(series) == UniqueFrom(series, 1, {})

dropna(series) == SelectSeq(series, LAMBDA c : ~isna(c))

NonNa(series) == {Val(series[i]) : i \in {j \in 1..Len(series) : ~isna(series[j])}}
\* Series.min() / Series.max(): NaN is skipped; NaN when nothing is left.
SeriesMin(series) ==
    IF NonNa(series) = {} THEN NaN
    ELSE Cell(CHOOSE m \in NonNa(series) : \A v \in NonNa(series) : m <= v)
SeriesMax(series) ==
    IF NonNa(series) = {} THEN NaN
    ELSE Cell(CHOOSE m \in NonNa(series) : \A v \in NonNa(series) : m >= v)

\* int(x) of a non-negative number held in units of 1/scale: truncation.
IntOf(v, scale) == v \div scale

\* ------------------------------------------------------------- string order
\* The strings of the model in code-point order (Python's str comparison),
\* which is the order pandas sorts group keys in.
StrOrder == <<"A", "Australia", "Austria", "B", "Bahrain", "Belgium", "Brazil",
              "Canada", "Cyprus", "Denmark", "Documentary", "EIRE",
              "Electronic accessories",
              "February", "Finland", "France", "Friday", "Germany",
              "Health and beauty", "January", "Monday", "Movie", "PG", "Saturday",
              "Sunday", "TV Show", "Thursday", "Tuesday", "Wednesday",
              "female", "male">>
StrRank(s) == CHOOSE i \in 1..Len(StrOrder) : StrOrder[i] = s

RECURSIVE SortByRank(_, _)
SortByRank(S, r) ==
    IF S = {} THEN <<>>
    ELSE LET m == CHOOSE x \in S : \A y \in S : r[x] <= r[y]
         IN  <<m>> \o SortByRank(S \ {m}, r)

\* --------------------------------------------------------------- groupby
\* The keys of df.groupby(by): the distinct non-missing values of the column
\* (dropna=True), in first-seen order; groupby then sorts them (sort=True).
FirstSeenKeys(df, by) ==
    LET u == dropna(unique(Col(df, by))) IN [i \in 1..Len(u) |-> Val(u[i])]
\* The variant with sort=False: the keys stay in first-seen order.
GroupKeysStrFirstSeen(df, by) == FirstSeenKeys(df, by)
GroupKeysStr(df, by) ==
    LET K == NonNa(Col(df, by)) IN SortByRank(K, [k \in K |-> StrRank(k)])
GroupKeysInt(df, by) ==
    LET K == NonNa(Col(df, by)) IN SortByRank(K, [k \in K |-> k])

\* The variant that does not split the rows by key.
GroupRowsAll(df, by, k) == df.rows
\* The rows of one group.
GroupRows(df, by, k) == SelectSeq(df.rows, LAMBDA r : r[by] = Cell(k))

RECURSIVE SumCells(_, _)
SumCells(series, i) ==
    IF i > Len(series) THEN 0
    ELSE (IF isna(series[i]) THEN 0 ELSE Val(series[i])) + SumCells(series, i + 1)
\* Series.sum(): NaN is skipped, the sum of nothing is 0.
SeriesSum(series) == SumCells(series, 1)
\* (The variant SeriesCountRows counts every cell.)
SeriesCountRows(series) == Len(series)
\* Series.count(): the number of non-missing cells.
SeriesCount(series) == Len(dropna(series))
\* Series.mean(): the sum of the non-missing cells over their number, kept as
\* the fraction <<sum, count>>; NaN when every cell is missing.
\* (The variant SeriesMeanOverRows divides by the number of cells.)
SeriesMeanOverRows(series) ==
    IF SeriesCount(series) = 0 THEN NaN
    ELSE Cell(<<SeriesSum(series), Len(series)>>)
SeriesMean(series) ==
    IF SeriesCount(series) = 0 THEN NaN
    ELSE Cell(<<SeriesSum(series), SeriesCount(series)>>)

RowsCol(rows, c) == [i \in 1..Len(rows) |-> rows[i][c]]

\* df.groupby(by)[metric].sum() / .mean() over the given key order: one entry
\* per key, [key, value].
GroupSum(df, by, metric, keys) ==
    [i \in 1..Len(keys) |->
        [key |-> keys[i], value |-> SeriesSum(RowsCol(GroupRows(df, by, keys[i]), metric))]]
GroupMean(df, by, metric, keys) ==
    [i \in 1..Len(keys) |->
        [key |-> keys[i], value |-> SeriesMean(RowsCol(GroupRows(df, by, keys[i]), metric))]]

\* The orders Series.sort_values gives a grouped result: ascending (or
\* descending) by value, entries of equal value in either order.
Perms(entries) ==
    {p \in [1..Len(entries) -> 1..Len(entries)] :
        \A i, j \in 1..Len(entries) : i # j => p[i] # p[j]}
Distinct(entries) ==
    \A i, j \in 1..Len(entries) : i # j => entries[i].value # entries[j].value
SortValues(entries, ascending) ==
    IF Distinct(entries)
    THEN {SortByRank(Range(entries),
                     [e \in Range(entries) |-> IF ascending THEN e.value ELSE 0 - e.value])}
    ELSE {[i \in 1..Len(entries) |-> entries[p[i]]] : p \in
            {q \in Perms(entries) : \A i, j \in 1..Len(entries) :
                i < j => IF ascending THEN entries[q[i]].value <= entries[q[j]].value
                         ELSE entries[q[i]].value >= entries[q[j]].value}}

\* The number of rows of Series.head(10).
TopN == 10
\* The variant without head(): the whole series.
HeadAll(entries, n) == entries
\* Series.head(n)
HeadN(entries, n) == SubSeq(entries, 1, IF Len(entries) < n THEN Len(entries) ELSE n)

\* The number of cells of the series holding the value v.
Occurrences(series, v) == Cardinality({i \in 1..Len(series) : series[i] = Cell(v)})
\* Series.value_counts(): the count of each distinct non-missing value, by
\* descending count, values of equal count in either order.
value_counts(series) ==
    LET keys == dropna(unique(series)) IN
    SortValues([i \in 1..Len(keys) |->
                    [key |-> Val(keys[i]), value |-> Occurrences(series, Val(keys[i]))]],
               FALSE)

\* round(2) of a mean <<sum, count>>: the value in hundredths, a tie going to
\* the even neighbour; NaN stays NaN.
Round2(m) ==
    IF isna(m) THEN NaN
    ELSE LET q == (100 * Val(m)[1]) \div Val(m)[2]
             r == (100 * Val(m)[1]) % Val(m)[2]
         IN  Cell(IF 2 * r > Val(m)[2] \/ (2 * r = Val(m)[2] /\ q % 2 = 1) THEN q + 1 ELSE q)

\* ------------------------------------------------------------- CSV sources
Unreadable == [kind |-> "Unreadable"]
Csv(columns, rows) == [kind |-> "Csv", columns |-> columns, rows |-> rows]

EmptyRow == [c \in {} |-> NaN]
Extend(r, c, v) == [k \in DOMAIN r \cup {c} |-> IF k = c THEN v ELSE r[k]]
\* The rows over the columns cols, each cell drawn from the column's domain.
RECURSIVE RowsOver(_, _)
RowsOver(cols, dom) ==
    IF cols = <<>> THEN {EmptyRow}
    ELSE {Extend(r, Head(cols), v) : r \in RowsOver(Tail(cols), dom), v \in dom[Head(cols)]}

SeqsUpTo(S, n) == UNION {[1..k -> S] : k \in 0..n}
\* The column lists a source may have: up to MaxAbsentCols columns absent.
ColumnVariants(cols) ==
    {SelectSeq(cols, LAMBDA x : x \notin A) :
        A \in {B \in SUBSET Range(cols) : Cardinality(B) <= MaxAbsentCols}}
\* The CSV sources over a column list: unreadable, or up to MaxRows rows
\* over the columns present.
Sources(cols, dom) ==
    {Unreadable} \cup
    UNION {{Csv(cv, rs) : rs \in SeqsUpTo(RowsOver(cv, dom), MaxRows)} :
           cv \in ColumnVariants(cols)}

\* ------------------------------------------------------------- the session
\* What the memo of a load function holds after a run: st.cache_data keeps the
\* value the function returned; the frame the script goes on to filter is its
\* own copy, and indexing with a mask builds a new frame.
\* (The variant MemoAliased: the memo aliases the frame the script filtered.)
MemoAliased(loaded, shown) == IF IsFrame(shown) THEN shown ELSE loaded
Memo(loaded, shown) == loaded

\* (The variant in which st.cache_data never answers from the memo.)
ParsedEveryRun == parses + 1
\* History: load_data is called in every run; st.cache_data executes its body
\* only when the memo holds nothing for the source, and the body's read_csv
\* parses the source if it can be read.
Parsed == IF cache = NotCached /\ source.kind = "Csv" THEN parses + 1 ELSE parses
\* The runs followed: those that keep the number of parses within bound.
MayParse == (cache = NotCached /\ source.kind = "Csv") => parses < MaxParses

\* History: whether a run so far showed fewer rows than were loaded.
Narrowed(loaded, shown) ==
    narrowed \/ (IsFrame(loaded) /\ IsFrame(shown) /\ Len(shown.rows) < Len(loaded.rows))
NoWidgets == [kind |-> "None"]
NoViews == [kind |-> "None"]

\* ================================================================ Titanic
TitanicColumns == <<"Survived", "Pclass", "Sex", "Age">>
TitanicDomain ==
    [Survived |-> {Cell(0), Cell(1)},
     Pclass |-> {Cell(3)},
     Sex |-> {Cell("male"), Cell("female")},
     Age |-> {NaN, Cell(0), Cell(AgeScale), Cell(AgeScale + 1)}]

\* A file of three passengers of whom two survived.
TitanicPieSources ==
    {Csv(TitanicColumns,
         [i \in 1..3 |->
            [Survived |-> Cell(<<1, 1, 0>>[i]), Pclass |-> Cell(3),
             Sex |-> Cell(<<"female", "female", "male">>[i]),
             Age |-> Cell(<<AgeScale, 2 * AgeScale, AgeScale>>[i])]])}

\* load_data(): pd.read_csv; an unreadable file raises.
TitanicLoad(src) ==
    IF src.kind = "Unreadable" THEN None ELSE DataFrame(src.columns, src.rows)

\* The mask of "Apply filters".
TitanicMask(df, gender_filter, class_filter, age_min, age_max) ==
    MaskAnd(MaskAnd(isin(Col(df, "Sex"), gender_filter),
                    isin(Col(df, "Pclass"), class_filter)),
            MaskOr(between(Col(df, "Age"), age_min * AgeScale, age_max * AgeScale),
                   MaskIsna(Col(df, "Age"))))

TitanicViews(fdf) ==
    [kind |-> "titanic",
     total |-> Len(fdf.rows),
     survival_rate |-> SeriesMean(Col(fdf, "Survived")),
     avg_age |-> SeriesMean(Col(fdf, "Age")),
     gender_survival |-> GroupMean(fdf, "Sex", "Survived", GroupKeysStr(fdf, "Sex"))]

\* The names px.pie is given for the slices, in this order.
PieNames == <<"Did Not Survive", "Survived">>
\* px.pie(values=survival_counts.values, names=[...]): the i-th name goes
\* with the i-th count.
SurvivalPie(survival_counts) ==
    [i \in 1..Len(survival_counts) |->
        [label |-> PieNames[i], value |-> survival_counts[i].value]]

\* filtered_df.groupby(['Sex', 'Pclass'])['Survived'].mean().unstack(): one
\* row per sex, one cell per class, NaN where the pair has no row.
PivotData(fdf) ==
    LET sexes == GroupKeysStr(fdf, "Sex")
        classes == GroupKeysInt(fdf, "Pclass")
    IN  [i \in 1..Len(sexes) |->
            [key |-> sexes[i],
             cells |-> [j \in 1..Len(classes) |->
                [key |-> classes[j],
                 value |-> SeriesMean(RowsCol(
                    SelectSeq(fdf.rows, LAMBDA r : r["Sex"] = Cell(sexes[i])
                                                   /\ r["Pclass"] = Cell(classes[j])),
                    "Survived"))]]]]
\* The heatmap, or the warning shown in its place when the pivot is empty.
Heatmap(fdf) ==
    IF PivotData(fdf) = <<>>
    THEN [warning |-> "No data available for heatmap with current filters."]
    ELSE [z |-> PivotData(fdf)]

\* missing_df[missing_df['Missing Count'] > 0]: per column with a missing
\* cell, their number and their share of the rows in hundredths of a percent.
MissingDf(fdf) ==
    LET cols == SelectSeq(fdf.columns,
                    LAMBDA c : Len(Col(fdf, c)) - SeriesCount(Col(fdf, c)) > 0)
    IN  [i \in 1..Len(cols) |->
            LET missing == Len(Col(fdf, cols[i])) - SeriesCount(Col(fdf, cols[i]))
            IN  [Column |-> cols[i], Missing_Count |-> missing,
                 Missing_Pct |-> Round2(Cell(<<100 * missing, Len(fdf.rows)>>))]]

\* What the page renders below the sidebar, in the order of the script: the
\* metrics and the bars by gender, then the pie, whose px.pie raises when
\* the counts are not as many as the two names, then heatmap and explorer.
TitanicOutcomes(fdf) ==
    {IF Len(survival_counts) # Len(PieNames)
     THEN [status |-> "ValueError", views |-> TitanicViews(fdf)]
     ELSE [status |-> "ok",
           views |-> [kind |-> "titanic",
                      total |-> TitanicViews(fdf).total,
                      survival_rate |-> TitanicViews(fdf).survival_rate,
                      avg_age |-> TitanicViews(fdf).avg_age,
                      gender_survival |-> TitanicViews(fdf).gender_survival,
                      survival_counts |-> survival_counts,
                      pie |-> SurvivalPie(survival_counts),
                      heatmap |-> Heatmap(fdf),
                      missing_df |-> MissingDf(fdf)]] :
        survival_counts \in value_counts(Col(fdf, "Survived"))}

\* The sidebar raises before any widget exists: a column it reads is absent
\* (KeyError), or int() of the NaN minimum of an all-missing Age (ValueError).
TitanicSidebarError(df) ==
    IF ~HasCol(df, "Sex") \/ ~HasCol(df, "Pclass") \/ ~HasCol(df, "Age") THEN "KeyError"
    ELSE IF isna(SeriesMin(Col(df, "Age"))) THEN "ValueError"
    ELSE "ok"

\* One run of app.py.
TitanicRun ==
    /\ app = "titanic"
    /\ MayParse
    /\ parses' = Parsed
    /\ UNCHANGED <<app, source>>
    /\ LET df == IF cache = NotCached THEN TitanicLoad(source) ELSE cache IN
       IF ~IsFrame(df) THEN
            /\ status' = "FileNotFoundError"
            /\ UNCHANGED <<cache, widgets, filtered_df, views, narrowed>>
       ELSE
            /\ IF TitanicSidebarError(df) # "ok" THEN
                    /\ status' = TitanicSidebarError(df)
                    /\ widgets' = NoWidgets
                    /\ filtered_df' = None
                    /\ views' = NoViews
               ELSE \E gender_filter \in SUBSET Range(unique(Col(df, "Sex"))),
                       class_filter \in SUBSET Range(unique(Col(df, "Pclass"))),
                       age_min \in IntOf(Val(SeriesMin(Col(df, "Age"))), AgeScale)
                                   ..IntOf(Val(SeriesMax(Col(df, "Age"))), AgeScale),
                       age_max \in IntOf(Val(SeriesMin(Col(df, "Age"))), AgeScale)
                                   ..IntOf(Val(SeriesMax(Col(df, "Age"))), AgeScale) :
                    /\ age_min <= age_max
                    /\ widgets' = [kind |-> "titanic", gender_filter |-> gender_filter,
                                   class_filter |-> class_filter,
                                   age_min |-> age_min, age_max |-> age_max]
                    /\ filtered_df' = BoolIndex(df, TitanicMask(df, gender_filter,
                                                    class_filter, age_min, age_max))
                    /\ IF HasCol(df, "Survived")
                       THEN \E o \in TitanicOutcomes(filtered_df') :
                                /\ status' = o.status
                                /\ views' = o.views
                       ELSE /\ status' = "KeyError"
                            /\ views' = NoViews
            /\ cache' = Memo(df, filtered_df')
            /\ narrowed' = Narrowed(df, filtered_df')


\* ================================================================ Netflix
NetflixColumns == <<"show_id", "type", "date_added", "release_year", "rating",
                    "country", "listed_in">>
\* date_added is the text of the CSV cell: a date <<month, day, year>>, or text
\* that is no date.
NetflixDomain ==
    [show_id |-> {NaN, Cell("s1")},
     type |-> {Cell("Movie"), Cell("TV Show")},
     date_added |-> {NaN, Cell(<<9, 25, 2021>>)},
     release_year |-> {NaN, Cell(2020), Cell(2021)},
     rating |-> {NaN, Cell("PG")},
     country |-> {NaN, Cell(<<"France">>), Cell(<<"France", ", ", "Germany">>),
                  Cell(<<"Germany", ", ", "France">>)},
     listed_in |-> {NaN, Cell(<<"Dramas">>), Cell(<<"Comedies">>),
                    Cell(<<"Dramas", ", ", "Comedies">>)}]
\* The text of a country or listed_in cell is the sequence of its names and
\* of the delimiters ", " between them.
\* The input rows of the Netflix model.  To keep their number small, the
\* other cells of a row follow from how many of its type, release_year and
\* rating cells are TV Show, 2021 and PG.
NetflixSecondCols(r) ==
    {c \in DOMAIN r :
        \/ c = "type" /\ r[c] = Cell("TV Show")
        \/ c = "release_year" /\ r[c] = Cell(2021)
        \/ c = "rating" /\ r[c] = Cell("PG")}
NetflixRow(r) ==
    LET n == Cardinality(NetflixSecondCols(r)) + 1 IN
    /\ "show_id" \in DOMAIN r =>
            r["show_id"] = <<Cell("s1"), Cell("s1"), NaN, Cell("s1")>>[n]
    /\ "date_added" \in DOMAIN r =>
            r["date_added"] = <<Cell(<<9, 25, 2021>>), NaN, Cell(<<9, 25, 2021>>),
                                Cell(<<9, 25, 2021>>)>>[n]
    /\ "country" \in DOMAIN r =>
            r["country"] = <<NaN, Cell(<<"France">>), Cell(<<"France", ", ", "Germany">>),
                             Cell(<<"Germany", ", ", "France">>)>>[n]
    /\ "listed_in" \in DOMAIN r =>
            r["listed_in"] = <<Cell(<<"Dramas", ", ", "Comedies">>), NaN, Cell(<<"Dramas">>),
                               Cell(<<"Comedies">>)>>[n]
NetflixSources ==
    {Unreadable} \cup
    UNION {{Csv(cv, rs) :
                rs \in SeqsUpTo({r \in RowsOver(cv, NetflixDomain) : NetflixRow(r)}, MaxRows)} :
           cv \in ColumnVariants(NetflixColumns)}

\* A file of three titles, one of which is neither a movie nor a TV show.
NetflixTypeSources ==
    {Csv(NetflixColumns,
         [i \in 1..3 |->
            [show_id |-> Cell("s1"),
             type |-> Cell(<<"Movie", "TV Show", "Documentary">>[i]),
             date_added |-> Cell(<<9, 25, 2021>>),
             release_year |-> Cell(<<2020, 2021, 2021>>[i]),
             rating |-> Cell("PG"),
             country |-> Cell(<<"France">>),
             listed_in |-> Cell(<<"Dramas">>)]])}

\* pd.to_datetime(cell, errors='coerce'): NaT (NaN) for a missing cell or text
\* that is no date, else the timestamp <<year, month, day>>.
ToDatetimeCoerce(c) ==
    IF isna(c) THEN NaN
    ELSE IF Val(c) \in Seq(Int) /\ Len(Val(c)) = 3
         THEN Cell(<<Val(c)[3], Val(c)[1], Val(c)[2]>>)
         ELSE NaN
\* Series.dt.year
DtYear(c) == IF isna(c) THEN NaN ELSE Cell(Val(c)[1])

\* df[c] = f(df[...]): the column c is replaced in place, or appended as the
\* last column when it is new.
Assign(df, c, series) ==
    DataFrame(IF HasCol(df, c) THEN df.columns ELSE Append(df.columns, c),
              [i \in 1..Len(df.rows) |-> Extend(df.rows[i], c, series[i])])

\* load_data(): read_csv, date_added parsed, year_added derived.  None stands
\* for the exception of an unreadable file or an absent date_added column.
NetflixLoad(src) ==
    IF src.kind = "Unreadable" THEN None
    ELSE IF "date_added" \notin Range(src.columns) THEN None
    ELSE LET df0 == DataFrame(src.columns, src.rows)
             df1 == Assign(df0, "date_added",
                        [i \in 1..Len(df0.rows) |-> ToDatetimeCoerce(df0.rows[i]["date_added"])])
         IN  Assign(df1, "year_added",
                        [i \in 1..Len(df1.rows) |-> DtYear(df1.rows[i]["date_added"])])

\* (The variant in which the exception of load_data shows nothing.)
NetflixLoadErrorSilent(src) == "ok"
\* The exception load_data raises, which Streamlit shows in place of the page.
NetflixLoadError(src) ==
    IF src.kind = "Unreadable" THEN "FileNotFoundError" ELSE "KeyError"

\* The variant without "| df['rating'].isna()".
NetflixMaskNoNaRating(df, type_filter, year_min, year_max, rating_filter) ==
    MaskAnd(MaskAnd(isin(Col(df, "type"), type_filter),
                    between(Col(df, "release_year"), year_min, year_max)),
            isin(Col(df, "rating"), rating_filter))

\* The mask of "Apply filters".
NetflixMask(df, type_filter, year_min, year_max, rating_filter) ==
    MaskAnd(MaskAnd(isin(Col(df, "type"), type_filter),
                    between(Col(df, "release_year"), year_min, year_max)),
            MaskOr(isin(Col(df, "rating"), rating_filter),
                   MaskIsna(Col(df, "rating"))))

\* len(df[df[c] == v])
CountEq(df, c, v) == Len(SelectSeq(df.rows, LAMBDA r : r[c] = Cell(v)))

\* Series.nunique(): the number of distinct non-missing values.
nunique(series) == Cardinality(NonNa(series))

\* filtered_df.groupby('type').agg(Total=('show_id','count'), Avg_Year=..., ...)
NetflixStats(fdf) ==
    LET keys == GroupKeysStr(fdf, "type") IN
    [i \in 1..Len(keys) |->
        LET g == GroupRows(fdf, "type", keys[i]) IN
        [key |-> keys[i],
         Total |-> SeriesCount(RowsCol(g, "show_id")),
         Avg_Year |-> SeriesMean(RowsCol(g, "release_year")),
         Min_Year |-> SeriesMin(RowsCol(g, "release_year")),
         Max_Year |-> SeriesMax(RowsCol(g, "release_year")),
         Countries |-> nunique(RowsCol(g, "country"))]]

\* str.split(sep) of a cell text: the names between the delimiters, the empty
\* string where a delimiter has no name before or after it.
RECURSIVE Split(_, _)
Split(text, sep) ==
    IF text = <<>> THEN <<"">>
    ELSE IF Head(text) = sep THEN <<"">> \o Split(Tail(text), sep)
    ELSE IF Len(text) = 1 THEN <<Head(text)>>
    ELSE <<Head(text)>> \o Split(Tail(Tail(text)), sep)
StrSplit(series, sep) ==
    [i \in 1..Len(series) |->
        IF isna(series[i]) THEN NaN ELSE Cell(Split(Val(series[i]), sep))]
\* Series.explode(): one entry per element of each list, in row order; a
\* missing cell stays one missing entry.
RECURSIVE ExplodeFrom(_, _)
ExplodeFrom(series, i) ==
    IF i > Len(series) THEN <<>>
    ELSE (IF isna(series[i]) THEN <<NaN>>
          ELSE [k \in 1..Len(Val(series[i])) |-> Cell(Val(series[i])[k])])
         \o ExplodeFrom(series, i + 1)
\* The variant that keeps only the first element of each list.
explodeFirstOnly(series) ==
    [i \in 1..Len(series) |->
        IF isna(series[i]) THEN NaN ELSE Cell(Val(series[i])[1])]
explode(series) == ExplodeFrom(series, 1)

\* groupby(['release_year', 'type']).size().reset_index(name='count'): one
\* row per pair of keys present together in a row, by year, then type; a row
\* with a missing key is in no group.
YearlySize(fdf) ==
    LET K == {<<Val(r["release_year"]), Val(r["type"])>> :
                r \in {x \in Range(fdf.rows) :
                        ~isna(x["release_year"]) /\ ~isna(x["type"])}}
        keys == SortByRank(K, [k \in K |-> k[1] * (Len(StrOrder) + 1) + StrRank(k[2])])
    IN  [i \in 1..Len(keys) |->
            [key |-> keys[i],
             value |-> Len(SelectSeq(fdf.rows, LAMBDA r :
                            r["release_year"] = Cell(keys[i][1]) /\ r["type"] = Cell(keys[i][2])))]]
\* groupby('year_added').size().reset_index(name='count').dropna()
AddedSize(fdf) ==
    LET keys == GroupKeysInt(fdf, "year_added") IN
    [i \in 1..Len(keys) |->
        [key |-> keys[i], value |-> Len(GroupRows(fdf, "year_added", keys[i]))]]

\* (The variant without dropna().)
CountriesSeriesKeepMissing(fdf) == explode(StrSplit(Col(fdf, "country"), ", "))
\* filtered_df['country'].dropna().str.split(', ').explode()
CountriesSeries(fdf) == explode(StrSplit(dropna(Col(fdf, "country")), ", "))
\* filtered_df['listed_in'].str.split(', ').explode()
GenresSeries(fdf) == explode(StrSplit(Col(fdf, "listed_in"), ", "))

\* What the script renders from "Key Metrics" on, in its order; an exception
\* (KeyError of an absent column) ends the run where it is raised and leaves
\* what was rendered before it.
\* (The variant whose second card counts a type no row has.)
NetflixMetricsMisspelt(fdf) ==
    [kind |-> "netflix",
     total |-> Len(fdf.rows),
     movies |-> CountEq(fdf, "type", "Movies"),
     tv_shows |-> CountEq(fdf, "type", "TV Show")]
NetflixMetrics(fdf) ==
    [kind |-> "netflix",
     total |-> Len(fdf.rows),
     movies |-> CountEq(fdf, "type", "Movie"),
     tv_shows |-> CountEq(fdf, "type", "TV Show")]
NetflixOutcomes(fdf) ==
    IF ~HasCol(fdf, "country")
    THEN {[status |-> "KeyError", views |-> NetflixMetrics(fdf)]}
    ELSE UNION {
        LET countries_series == CountriesSeries(fdf)
            charts == NetflixMetrics(fdf) @@
                      [countries |-> nunique(Col(fdf, "country")),
                       type_counts |-> tc,
                       rating_counts |-> HeadN(rc, TopN),
                       yearly |-> YearlySize(fdf),
                       added |-> AddedSize(fdf),
                       countries_series |-> countries_series]
        IN  UNION {
                IF ~HasCol(fdf, "listed_in")
                THEN {[status |-> "KeyError",
                       views |-> charts @@ [top_countries |-> HeadN(cc, TopN)]]}
                ELSE LET genres == GenresSeries(fdf) IN
                     {[status |-> IF HasCol(fdf, "show_id") THEN "ok" ELSE "KeyError",
                       views |-> charts @@
                                 [top_countries |-> HeadN(cc, TopN),
                                  genres |-> genres,
                                  top_genres |-> HeadN(gc, TopN)] @@
                                 (IF HasCol(fdf, "show_id")
                                  THEN [stats |-> NetflixStats(fdf)]
                                  ELSE [none \in {} |-> 0])] :
                        gc \in value_counts(genres)} :
                cc \in value_counts(countries_series)} :
        tc \in value_counts(Col(fdf, "type")),
        rc \in value_counts(Col(fdf, "rating"))}

NetflixSidebarError(df) ==
    IF ~HasCol(df, "type") \/ ~HasCol(df, "release_year") \/ ~HasCol(df, "rating")
    THEN "KeyError"
    ELSE IF isna(SeriesMin(Col(df, "release_year"))) THEN "ValueError"
    ELSE "ok"

\* One run of netflix_app.py.
NetflixRun ==
    /\ app = "netflix"
    /\ MayParse
    /\ parses' = Parsed
    /\ UNCHANGED <<app, source>>
    /\ LET df == IF cache = NotCached THEN NetflixLoad(source) ELSE cache IN
       IF ~IsFrame(df) THEN
            /\ status' = NetflixLoadError(source)
            /\ UNCHANGED <<cache, widgets, filtered_df, views, narrowed>>
       ELSE
            /\ IF NetflixSidebarError(df) # "ok" THEN
                    /\ status' = NetflixSidebarError(df)
                    /\ widgets' = NoWidgets
                    /\ filtered_df' = None
                    /\ views' = NoViews
               ELSE \E type_filter \in SUBSET Range(unique(Col(df, "type"))),
                       year_min \in Val(SeriesMin(Col(df, "release_year")))
                                    ..Val(SeriesMax(Col(df, "release_year"))),
                       year_max \in Val(SeriesMin(Col(df, "release_year")))
                                    ..Val(SeriesMax(Col(df, "release_year"))),
                       rating_filter \in SUBSET Range(unique(dropna(Col(df, "rating")))) :
                    /\ year_min <= year_max
                    /\ widgets' = [kind |-> "netflix", type_filter |-> type_filter,
                                   year_min |-> year_min, year_max |-> year_max,
                                   rating_filter |-> rating_filter]
                    /\ filtered_df' = BoolIndex(df, NetflixMask(df, type_filter,
                                                    year_min, year_max, rating_filter))
                    /\ \E o \in NetflixOutcomes(filtered_df') :
                            /\ status' = o.status
                            /\ views' = o.views
            /\ cache' = Memo(df, filtered_df')
            /\ narrowed' = Narrowed(df, filtered_df')


\* ================================================================= Retail
\* Calendar of 2019, the year of the supermarket sales data.  A timestamp is
\* <<year, month, day>>.
MonthNames == <<"January", "February">>
DaysBeforeMonth == <<0, 31>>
DaysInMonth == <<31, 28>>
DayNames == <<"Monday", "Tuesday", "Wednesday", "Thursday", "Friday", "Saturday", "Sunday">>
DayOfYear(ts) == DaysBeforeMonth[ts[2]] + ts[3]
\* 1 January 2019 is a Tuesday.
DayName(ts) == DayNames[(DayOfYear(ts) % 7) + 1]
\* The order of timestamps of the year.
TsLeq(a, b) == DayOfYear(a) <= DayOfYear(b)
Dates2019 == {<<2019, m, d>> : m \in 1..Len(MonthNames), d \in 1..31} \cap
             UNION {{<<2019, m, d>> : d \in 1..DaysInMonth[m]} : m \in 1..Len(MonthNames)}

\* pd.to_datetime(cell) of the Date text <<month, day, year>>.
ToDatetime(c) == IF isna(c) THEN NaN ELSE Cell(<<Val(c)[3], Val(c)[1], Val(c)[2]>>)

RetailColumns == <<"Branch", "Product line", "Total", "Date", "Quantity">>
RetailDomain ==
    ("Branch" :> {Cell("A"), Cell("B")}) @@
    ("Product line" :> {Cell("Health and beauty"), Cell("Electronic accessories")}) @@
    ("Total" :> {NaN, Cell(1), Cell(2)}) @@
    ("Date" :> {Cell(<<1, 31, 2019>>), Cell(<<2, 1, 2019>>)}) @@
    ("Quantity" :> {NaN, Cell(1), Cell(2)}) @@
    ("Rating" :> {NaN, Cell(5), Cell(7), Cell(9)})

\* The input rows of the retail model.  To keep their number small, every two
\* values of two columns still meeting in some row: the branch of a row is A
\* exactly when its date and its product line are both the first or both the
\* second value of their column, and its Total is 1, 2, missing, 1 as more of
\* its cells take the second value; so are its Quantity 1, 2, 1, missing and
\* its Rating (in tenths of ten) 9, 5, missing, 7.
RetailSecondCols(r) ==
    {c \in DOMAIN r :
        \/ c = "Branch" /\ r[c] = Cell("B")
        \/ c = "Product line" /\ r[c] = Cell("Electronic accessories")
        \/ c = "Date" /\ r[c] = Cell(<<2, 1, 2019>>)}
RetailRow(r) ==
    /\ {"Branch", "Product line", "Date"} \subseteq DOMAIN r =>
            (("Branch" \in RetailSecondCols(r)) <=>
             (("Product line" \in RetailSecondCols(r)) # ("Date" \in RetailSecondCols(r))))
    /\ "Total" \in DOMAIN r =>
            r["Total"] = <<Cell(1), Cell(2), NaN, Cell(1)>>[Cardinality(RetailSecondCols(r)) + 1]
    /\ "Quantity" \in DOMAIN r =>
            r["Quantity"] = <<Cell(1), Cell(2), Cell(1), NaN>>[Cardinality(RetailSecondCols(r)) + 1]
    /\ "Rating" \in DOMAIN r =>
            r["Rating"] = <<Cell(9), Cell(5), NaN, Cell(7)>>[Cardinality(RetailSecondCols(r)) + 1]
\* The uploaded files: unreadable, or up to MaxRows of these rows over the
\* columns present; every file has a Rating column.
RetailSources ==
    {Unreadable} \cup
    UNION {{Csv(cv, rs) :
                rs \in SeqsUpTo({r \in RowsOver(cv, RetailDomain) : RetailRow(r)}, MaxRows)} :
           cv \in {Append(v, "Rating") : v \in ColumnVariants(RetailColumns)}}

\* Files of four sales of one day, without Branch and Product line columns:
\* Total 0, 1, 4, 7 with a Quantity and a Rating column correlated with it
\* at exactly 0.7 and 1, at about 0.995 and -1, and at 0.7 and not at all
\* (a constant Rating).
RetailCorrTable(quantity, rating) ==
    Csv(<<"Total", "Date", "Quantity", "Rating">>,
        [i \in 1..4 |->
            ("Total" :> Cell(<<0, 1, 4, 7>>[i])) @@ ("Date" :> Cell(<<1, 31, 2019>>)) @@
            ("Quantity" :> Cell(quantity[i])) @@ ("Rating" :> Cell(rating[i]))])
RetailCorrSources ==
    {RetailCorrTable(<<0, 1, 7, 4>>, <<0, 2, 8, 14>>),
     RetailCorrTable(<<0, 1, 4, 6>>, <<7, 6, 3, 0>>),
     RetailCorrTable(<<0, 1, 7, 4>>, <<5, 5, 5, 5>>)}

\* Files of two sales with a gross income column, without and with the cogs
\* column.
RetailProfitRows(cols) ==
    [i \in 1..2 |->
        [c \in Range(cols) |->
            CASE c = "Product line" ->
                    Cell(<<"Health and beauty", "Electronic accessories">>[i])
              [] c = "Date" -> Cell(<<1, 31, 2019>>)
              [] c = "Total" -> Cell(<<2, 0>>[i])
              [] c = "Quantity" -> Cell(1)
              [] c = "cogs" -> Cell(<<1, 0>>[i])
              [] c = "gross income" -> Cell(1)
              [] c = "Rating" -> Cell(7)]]
RetailProfitSources ==
    {Csv(cols, RetailProfitRows(cols)) : cols \in
        {<<"Product line", "Total", "Date", "Quantity", "gross income", "Rating">>,
         <<"Product line", "Total", "Date", "Quantity", "cogs", "gross income", "Rating">>}}

DtMonth(c) == IF isna(c) THEN NaN ELSE Cell(Val(c)[2])
DtDay(c) == IF isna(c) THEN NaN ELSE Cell(Val(c)[3])
DtMonthName(c) == IF isna(c) THEN NaN ELSE Cell(MonthNames[Val(c)[2]])
DtDayName(c) == IF isna(c) THEN NaN ELSE Cell(DayName(Val(c)))

\* load_data(file): None when anything in the try block raised (the file is
\* unreadable, or it has no Date column), else the frame with Date parsed and
\* Year, Month, Month_Name, Day, DayOfWeek appended.
RetailLoad(src) ==
    IF src.kind = "Unreadable" THEN None
    ELSE IF "Date" \notin Range(src.columns) THEN None
    ELSE LET df0 == DataFrame(src.columns, src.rows)
             df1 == Assign(df0, "Date", [i \in DOMAIN df0.rows |-> ToDatetime(df0.rows[i]["Date"])])
             df2 == Assign(df1, "Year", [i \in DOMAIN df1.rows |-> DtYear(df1.rows[i]["Date"])])
             df3 == Assign(df2, "Month", [i \in DOMAIN df2.rows |-> DtMonth(df2.rows[i]["Date"])])
             df4 == Assign(df3, "Month_Name", [i \in DOMAIN df3.rows |-> DtMonthName(df3.rows[i]["Date"])])
             df5 == Assign(df4, "Day", [i \in DOMAIN df4.rows |-> DtDay(df4.rows[i]["Date"])])
         IN  Assign(df5, "DayOfWeek", [i \in DOMAIN df5.rows |-> DtDayName(df5.rows[i]["Date"])])

TsMin(series) ==
    CHOOSE m \in NonNa(series) : \A v \in NonNa(series) : TsLeq(m, v)
TsMax(series) ==
    CHOOSE m \in NonNa(series) : \A v \in NonNa(series) : TsLeq(v, m)

\* What st.date_input can return for the range widget: one date (the range is
\* being picked) or two, start <= end, between min_value and max_value.
DateInputValues(lo, hi) ==
    LET D == {d \in Dates2019 : TsLeq(lo, d) /\ TsLeq(d, hi)}
    IN  {<<a>> : a \in D} \cup {p \in D \X D : TsLeq(p[1], p[2])}

\* (df['Date'].dt.date >= d0) & (df['Date'].dt.date <= d1)
DateMask(df, d0, d1) ==
    [i \in 1..Len(df.rows) |->
        /\ ~isna(df.rows[i]["Date"])
        /\ TsLeq(d0, Val(df.rows[i]["Date"]))
        /\ TsLeq(Val(df.rows[i]["Date"]), d1)]

\* The three successive filters of main(), each applied to the result of the
\* one before; a filter whose column is absent is skipped.
\* The variant without the len(date_range) == 2 test: a single picked date
\* filters as the range from that date to itself.
RetailDateFilteredAnyLen(df, date_range) ==
    IF HasCol(df, "Date") /\ Len(date_range) >= 1
    THEN BoolIndex(df, DateMask(df, date_range[1], date_range[Len(date_range)]))
    ELSE df
RetailDateFiltered(df, date_range) ==
    IF HasCol(df, "Date") /\ Len(date_range) = 2
    THEN BoolIndex(df, DateMask(df, date_range[1], date_range[2]))
    ELSE df
RetailProductFiltered(df, product_lines) ==
    IF HasCol(df, "Product line")
    THEN BoolIndex(df, isin(Col(df, "Product line"), product_lines))
    ELSE df
RetailBranchFiltered(df, branches) ==
    IF HasCol(df, "Branch")
    THEN BoolIndex(df, isin(Col(df, "Branch"), branches))
    ELSE df
\* (The variant in which a view adds its working column to the table.)
RetailFilteredAddingColumn(df, w) ==
    LET f == RetailBranchFiltered(
                RetailProductFiltered(RetailDateFiltered(df, w.date_range), w.product_lines),
                w.branches)
    IN  Assign(f, "Profit Margin %", [i \in 1..Len(f.rows) |-> NaN])
RetailFiltered(df, w) ==
    RetailBranchFiltered(
        RetailProductFiltered(RetailDateFiltered(df, w.date_range), w.product_lines),
        w.branches)

\* The values the three filter widgets can return together: the options of a
\* multiselect are the unique values of the frame filtered so far; the
\* selection of a widget that is not created (its column is absent) is empty.
RetailFilterChoices(df) ==
    UNION {UNION {
        {[date_range |-> dr, product_lines |-> pl, branches |-> br] :
            br \in IF HasCol(df, "Branch")
                   THEN SUBSET Range(unique(Col(
                            RetailProductFiltered(RetailDateFiltered(df, dr), pl), "Branch")))
                   ELSE {{}}} :
        pl \in IF HasCol(df, "Product line")
               THEN SUBSET Range(unique(Col(RetailDateFiltered(df, dr), "Product line")))
               ELSE {{}}} :
      dr \in DateInputValues(TsMin(Col(df, "Date")), TsMax(Col(df, "Date")))}

Pages == <<"Overview", "Product Analysis", "Time Series", "Customer Analysis",
           "Correlations", "Raw Data">>

\* Series.reindex(labels): one entry per label, in the order of the labels,
\* NaN for a label the series has no entry for.
Reindex(entries, labels) ==
    [i \in 1..Len(labels) |->
        [key |-> labels[i],
         value |-> IF \E j \in 1..Len(entries) : entries[j].key = labels[i]
                   THEN Cell((CHOOSE e \in Range(entries) : e.key = labels[i]).value)
                   ELSE NaN]]

GroupKeysTs(df, by) ==
    LET K == NonNa(Col(df, by)) IN SortByRank(K, [k \in K |-> DayOfYear(k)])

\* show_overview(df), given the order sort_values gave product_revenue.
OverviewViews(df, product_revenue) ==
    [kind |-> "Overview",
     total_revenue |-> SeriesSum(Col(df, "Total")),
     avg_transaction |-> SeriesMean(Col(df, "Total")),
     total_transactions |-> Len(df.rows),
     avg_rating |-> IF HasCol(df, "Rating") THEN SeriesMean(Col(df, "Rating")) ELSE NaN,
     product_revenue |-> product_revenue,
     branch_revenue |-> IF HasCol(df, "Branch")
                        THEN GroupSum(df, "Branch", "Total", GroupKeysStr(df, "Branch"))
                        ELSE <<>>,
     daily_sales |-> GroupSum(df, "Date", "Total", GroupKeysTs(df, "Date"))]
ProductRevenueOrders(df) ==
    IF HasCol(df, "Product line")
    THEN SortValues(GroupSum(df, "Product line", "Total",
                             GroupKeysStr(df, "Product line")), TRUE)
    ELSE {<<>>}

\* show_time_series(df)
TimeSeriesViews(df) ==
    [kind |-> "Time Series",
     monthly_revenue |-> GroupSum(df, "Month", "Total", GroupKeysInt(df, "Month")),
     dow_data |-> Reindex(GroupSum(df, "DayOfWeek", "Total", GroupKeysStr(df, "DayOfWeek")),
                          DayNames)]

\* sort_values(ascending=True) of a series of means: by value, NaN last,
\* entries of equal value in either order.
MeanLeq(a, b) == Val(a)[1] * Val(b)[2] <= Val(b)[1] * Val(a)[2]
SortMeans(entries) ==
    {[i \in 1..Len(entries) |-> entries[p[i]]] : p \in
        {q \in Perms(entries) : \A i, j \in 1..Len(entries) :
            i < j => \/ isna(entries[q[j]].value)
                     \/ /\ ~isna(entries[q[i]].value)
                        /\ MeanLeq(entries[q[i]].value, entries[q[j]].value)}}

\* df.groupby('Product line').agg({'Total': ['sum', 'mean', 'count'],
\* 'Quantity': 'sum', 'Rating': 'mean'}).round(2), columns renamed; value is
\* the Total Revenue column.
ProductStats(df) ==
    LET keys == GroupKeysStr(df, "Product line") IN
    [i \in 1..Len(keys) |->
        LET g == GroupRows(df, "Product line", keys[i]) IN
        [key |-> keys[i],
         value |-> SeriesSum(RowsCol(g, "Total")),
         Avg_Sale |-> Round2(SeriesMean(RowsCol(g, "Total"))),
         Transactions |-> SeriesCount(RowsCol(g, "Total")),
         Units_Sold |-> SeriesSum(RowsCol(g, "Quantity")),
         Avg_Rating |-> Round2(SeriesMean(RowsCol(g, "Rating")))]]

\* df.groupby('Product line').agg({'Total': 'sum', 'cogs': 'sum',
\* 'gross income': 'sum'}) with the Profit Margin % column: the quotient
\* gross income / Total * 100 as <<100 * gross income, Total>>, rounded to
\* hundredths unless Total is 0 (the quotient is then inf or NaN).  value is
\* the gross income column.
ProfitData(df) ==
    LET keys == GroupKeysStr(df, "Product line") IN
    [i \in 1..Len(keys) |->
        LET g == GroupRows(df, "Product line", keys[i])
            total == SeriesSum(RowsCol(g, "Total"))
            gross == SeriesSum(RowsCol(g, "gross income"))
        IN  [key |-> keys[i],
             Total |-> total,
             cogs |-> SeriesSum(RowsCol(g, "cogs")),
             value |-> gross,
             margin |-> IF total = 0 THEN [inf |-> gross # 0, nan |-> gross = 0, pct |-> NaN]
                        ELSE [inf |-> FALSE, nan |-> FALSE,
                              pct |-> Round2(Cell(<<100 * gross, total>>))]]]

\* (The variant that renders empty tables for absent columns.)
ProductAnalysisIgnoringAbsent(df) ==
    {[status |-> "ok",
      views |-> [kind |-> "Product Analysis", product_stats |-> <<>>, profit_data |-> <<>>,
                 qty_data |-> <<>>, rating_data |-> <<>>]]}
\* What show_product_analysis(df) renders, in the order of the script; an
\* exception (KeyError of an absent column) ends the run where it is raised
\* and leaves what was rendered before it.
ProductAnalysisOutcomes(df) ==
    IF ~HasCol(df, "Product line")
    THEN {[status |-> "ok",
           views |-> [kind |-> "Product Analysis",
                      warning |-> "Product line column not found in dataset"]]}
    ELSE IF ~HasCol(df, "Total") \/ ~HasCol(df, "Quantity") \/ ~HasCol(df, "Rating")
    THEN {[status |-> "KeyError", views |-> [kind |-> "Product Analysis"]]}
    ELSE UNION {
        IF HasCol(df, "gross income") /\ ~HasCol(df, "cogs")
        THEN {[status |-> "KeyError",
               views |-> [kind |-> "Product Analysis", product_stats |-> ps]]}
        ELSE {[status |-> "ok",
               views |-> IF HasCol(df, "gross income")
                         THEN [kind |-> "Product Analysis",
                               product_stats |-> ps,
                               profit_data |-> pd,
                               qty_data |-> qd,
                               rating_data |-> rd]
                         ELSE [kind |-> "Product Analysis",
                               product_stats |-> ps,
                               qty_data |-> qd,
                               rating_data |-> rd]] :
                pd \in IF HasCol(df, "gross income")
                       THEN SortValues(ProfitData(df), FALSE) ELSE {<<>>},
                qd \in SortValues(GroupSum(df, "Product line", "Quantity",
                                           GroupKeysStr(df, "Product line")), TRUE),
                rd \in SortMeans(GroupMean(df, "Product line", "Rating",
                                           GroupKeysStr(df, "Product line")))} :
        ps \in SortValues(ProductStats(df), FALSE)}

\* df.select_dtypes(include=[np.number]).columns.tolist(): of the columns
\* followed here, these hold numbers.
NumericColumns == {"Total", "Quantity", "Rating", "cogs", "gross income",
                   "Year", "Month", "Day", "Hour"}
numerical_cols(df) ==
    SelectSeq(SelectSeq(df.columns, LAMBDA c : c \in NumericColumns),
              LAMBDA c : c \notin {"Year", "Month", "Day", "Hour"})

RECURSIVE SumProducts(_, _, _)
SumProducts(rows, a, b) ==
    IF rows = <<>> THEN 0
    ELSE Val(Head(rows)[a]) * Val(Head(rows)[b]) + SumProducts(Tail(rows), a, b)
\* One cell of DataFrame.corr(): the Pearson coefficient of the columns a and
\* b over the rows holding both, as the pair num, den2 standing for
\* num / sqrt(den2); NaN when fewer than two such rows or a column is
\* constant over them.
Pearson(df, a, b) ==
    LET rows == SelectSeq(df.rows, LAMBDA r : ~isna(r[a]) /\ ~isna(r[b]))
        n == Len(rows)
        sa == SeriesSum(RowsCol(rows, a))
        sb == SeriesSum(RowsCol(rows, b))
        sab == n * SumProducts(rows, a, b) - sa * sb
        saa == n * SumProducts(rows, a, a) - sa * sa
        sbb == n * SumProducts(rows, b, b) - sb * sb
    IN  IF n < 2 \/ saa = 0 \/ sbb = 0 THEN NaN
        ELSE Cell([num |-> sab, den2 |-> saa * sbb])
\* The threshold of the strong correlations, in hundredths.
StrongThreshold == 70
\* The variant with >= in place of >.
AbsAtLeast(c, t) ==
    /\ ~isna(c)
    /\ 10000 * Val(c).num * Val(c).num >= t * t * Val(c).den2
\* abs(c) > t / 100; False for NaN.
AbsAbove(c, t) ==
    /\ ~isna(c)
    /\ 10000 * Val(c).num * Val(c).num > t * t * Val(c).den2
\* The loop over i, and j from i + 1, appending the strong pairs in the
\* order it meets them.  (round(.., 3) of the coefficient is not applied
\* here: Correlation holds the coefficient itself.)
RECURSIVE StrongFrom(_, _, _)
StrongFrom(cols, corr_matrix, k) ==
    LET n == Len(cols)
        i == ((k - 1) \div n) + 1
        j == ((k - 1) % n) + 1
    IN  IF k > n * n THEN <<>>
        ELSE (IF j > i /\ AbsAbove(corr_matrix[i][j], StrongThreshold)
              THEN <<[Variable_1 |-> cols[i], Variable_2 |-> cols[j],
                      Correlation |-> corr_matrix[i][j]]>>
              ELSE <<>>) \o StrongFrom(cols, corr_matrix, k + 1)
\* show_correlations(df)
CorrelationViews(df) ==
    LET cols == numerical_cols(df)
        corr_matrix == [i \in 1..Len(cols) |->
                            [j \in 1..Len(cols) |-> Pearson(df, cols[i], cols[j])]]
    IN  IF Len(cols) < 2
        THEN [kind |-> "Correlations",
              warning |-> "Not enough numerical columns for correlation analysis"]
        ELSE [kind |-> "Correlations",
              numerical_cols |-> cols,
              corr_matrix |-> corr_matrix,
              strong_corr |-> StrongFrom(cols, corr_matrix, 1)]

\* The sidebar of a run that ended before its filters: the uploader alone.
RetailNoControls == [kind |-> "retail", uploaded |-> TRUE]

\* main() from "Load data" on, for the widget values w: what it leaves on the
\* page.  An exception raised in the script ends the run where it is raised.
\* The columns of the retail table that hold text.
TextColumns == {"Branch", "Product line", "Month_Name", "DayOfWeek"}
Pad2(n) == IF n < 10 THEN "0" \o ToString(n) ELSE ToString(n)
\* The text to_csv writes for a cell: nothing for a missing value, the ISO
\* date for a timestamp, the text itself, the digits of a number.
CsvField(c, cell) ==
    IF isna(cell) THEN ""
    ELSE IF c = "Date"
         THEN ToString(Val(cell)[1]) \o "-" \o Pad2(Val(cell)[2]) \o "-" \o Pad2(Val(cell)[3])
    ELSE IF c \in TextColumns THEN Val(cell)
    ELSE ToString(Val(cell))
\* (The variant with index=True: a first column holding the row position.)
to_csv_with_index(df) ==
    <<<<"">> \o df.columns>> \o
    [i \in 1..Len(df.rows) |->
        <<ToString(i - 1)>> \o
        [j \in 1..Len(df.columns) |-> CsvField(df.columns[j], df.rows[i][df.columns[j]])]]
\* df.to_csv(index=False): the header line, then one line per row, each line
\* the list of its comma-separated fields.
to_csv(df) ==
    <<df.columns>> \o
    [i \in 1..Len(df.rows) |->
        [j \in 1..Len(df.columns) |-> CsvField(df.columns[j], df.rows[i][df.columns[j]])]]

\* What show_raw_data(df) renders: the shape, and the file behind the
\* download button.
RawDataViews(df) ==
    [kind |-> "Raw Data",
     Rows |-> Len(df.rows),
     Columns |-> Len(df.columns),
     csv |-> to_csv(df)]

\* A dispatch that renders the first page whatever the radio says.
RetailFirstPageOutcomes(fdf, page) ==
    IF HasCol(fdf, "Total")
    THEN {[status |-> "ok", views |-> OverviewViews(fdf, pr)] :
            pr \in ProductRevenueOrders(fdf)}
    ELSE {[status |-> "KeyError", views |-> NoViews]}

\* What the selected page renders from the filtered table, and how the run
\* ends.
RetailPageOutcomes(fdf, page) ==
    IF page = "Overview" THEN
        IF HasCol(fdf, "Total")
        THEN {[status |-> "ok", views |-> OverviewViews(fdf, pr)] :
                pr \in ProductRevenueOrders(fdf)}
        ELSE {[status |-> "KeyError", views |-> NoViews]}
    ELSE IF page = "Time Series" THEN
        IF HasCol(fdf, "Total")
        THEN {[status |-> "ok", views |-> TimeSeriesViews(fdf)]}
        ELSE {[status |-> "KeyError", views |-> NoViews]}
    ELSE IF page = "Product Analysis" THEN ProductAnalysisOutcomes(fdf)
    ELSE IF page = "Correlations" THEN {[status |-> "ok", views |-> CorrelationViews(fdf)]}
    ELSE IF page = "Raw Data" THEN {[status |-> "ok", views |-> RawDataViews(fdf)]}
    ELSE {[status |-> "ok", views |-> [kind |-> page]]}

RetailMain(w) ==
    LET df == IF cache = NotCached THEN RetailLoad(source) ELSE cache IN
    /\ IF ~IsFrame(df) THEN
            /\ widgets' = RetailNoControls
            /\ status' = "LoadError"
            /\ filtered_df' = None
            /\ views' = NoViews
       ELSE /\ widgets' = w
            /\ filtered_df' = RetailFiltered(df, w)
            /\ \E o \in RetailPageOutcomes(filtered_df', w.page) :
                    /\ status' = o.status
                    /\ views' = o.views
    /\ cache' = Memo(df, filtered_df')
    /\ narrowed' = Narrowed(df, filtered_df')

RetailNoUpload == [kind |-> "retail", uploaded |-> FALSE]
RetailWidgets(c, page) ==
    [kind |-> "retail", uploaded |-> TRUE, date_range |-> c.date_range,
     product_lines |-> c.product_lines, branches |-> c.branches, page |-> page]

\* A run with no file in the uploader: the information text, nothing else.
RetailNoFile ==
    /\ app = "retail"
    /\ status = "idle"
    /\ status' = "NoFile"
    /\ widgets' = RetailNoUpload
    /\ UNCHANGED <<app, source, cache, filtered_df, views, narrowed, parses>>

\* The user uploads the file, or changes a sidebar filter: the script runs
\* with the page radio as it was (its first option in a session's first run).
RetailFilterInteraction ==
    /\ app = "retail"
    /\ MayParse
    /\ parses' = Parsed
    /\ UNCHANGED <<app, source>>
    /\ LET df == IF cache = NotCached THEN RetailLoad(source) ELSE cache
           page == IF "page" \in DOMAIN widgets THEN widgets.page ELSE Pages[1]
       IN  IF ~IsFrame(df)
           THEN RetailMain([kind |-> "retail", uploaded |-> TRUE, date_range |-> <<>>,
                            product_lines |-> {}, branches |-> {}, page |-> page])
           ELSE IF Len(df.rows) = 0
           THEN \* df['Date'].min() is NaT, and NaT.date() raises
                /\ cache' = df
                /\ UNCHANGED narrowed
                /\ status' = "ValueError"
                /\ widgets' = RetailNoControls
                /\ filtered_df' = None
                /\ views' = NoViews
           ELSE \E c \in RetailFilterChoices(df) : RetailMain(RetailWidgets(c, page))

\* The user picks another page: the script runs with the filters as they were.
RetailSwitchView ==
    /\ app = "retail"
    /\ status \in {"ok", "KeyError"}
    /\ MayParse
    /\ parses' = Parsed
    /\ UNCHANGED <<app, source>>
    /\ \E page \in Range(Pages) : RetailMain([widgets EXCEPT !.page = page])


\* ============================================================= E-commerce
\* CustomerID is a float column, held in units of 1/IdScale.
IdScale == 2


EcomColumns == <<"Description", "Quantity", "InvoiceDate", "UnitPrice", "CustomerID", "Country">>
EcomDomain ==
    [Description |-> {NaN},
     Quantity |-> {NaN, Cell(1), Cell(2)},
     InvoiceDate |-> {Cell(<<12, 1, 2010>>)},
     UnitPrice |-> {Cell(3)},
     CustomerID |-> {NaN, Cell(IdScale), Cell(IdScale + 1)},
     Country |-> {Cell("France"), Cell("Germany")}]
\* Sources with more countries than the top-10 chart shows: one row per
\* country, last country first, the quantity growing with the row.
CountryNames == <<"Australia", "Austria", "Bahrain", "Belgium", "Brazil", "Canada",
                  "Cyprus", "Denmark", "EIRE", "Finland", "France">>
EcomWideSources ==
    {Csv(EcomColumns,
         [i \in 1..k |->
            [Description |-> NaN, Quantity |-> Cell(i),
             InvoiceDate |-> Cell(<<12, 1, 2010>>), UnitPrice |-> Cell(3),
             CustomerID |-> Cell(IdScale), Country |-> Cell(CountryNames[k + 1 - i])]]) :
     k \in TopN..Len(CountryNames)}

\* load_data(): pd.read_csv; an unreadable file raises.
EcomLoad(src) ==
    IF src.kind = "Unreadable" THEN None ELSE DataFrame(src.columns, src.rows)

\* df.dropna(subset=[c])
DropnaSubset(df, c) ==
    BoolIndex(df, [i \in 1..Len(df.rows) |-> ~isna(df.rows[i][c])])
\* Series.fillna(v)
FillnaCell(c, v) == IF isna(c) THEN Cell(v) ELSE c
\* df.drop_duplicates(): a row equal to an earlier row is dropped.
DropDuplicates(df) ==
    BoolIndex(df, [i \in 1..Len(df.rows) |->
                        \A j \in 1..(i - 1) : df.rows[j] # df.rows[i]])
\* df.duplicated().sum()
DuplicatedSum(df) ==
    Cardinality({i \in 1..Len(df.rows) : \E j \in 1..(i - 1) : df.rows[j] = df.rows[i]})
\* Series.astype(int) of the float CustomerID: truncation.
AstypeInt(c) == Cell(IntOf(Val(c), IdScale))
\* Quantity * UnitPrice: NaN when either is missing.
MulCells(a, b) == IF isna(a) \/ isna(b) THEN NaN ELSE Cell(Val(a) * Val(b))

EcomRequired == {"CustomerID", "Description", "InvoiceDate", "Quantity", "UnitPrice"}

\* clean_data(df); None stands for the KeyError of an absent column.
clean_data(df) ==
    IF ~(EcomRequired \subseteq Range(df.columns)) THEN None
    ELSE LET c1 == DropnaSubset(df, "CustomerID")
             c2 == Assign(c1, "Description",
                        [i \in 1..Len(c1.rows) |-> FillnaCell(c1.rows[i]["Description"],
                                                              "No Description")])
             c3 == DropDuplicates(c2)
             c4 == Assign(c3, "CustomerID", [i \in DOMAIN c3.rows |-> AstypeInt(c3.rows[i]["CustomerID"])])
             c5 == Assign(c4, "InvoiceDate", [i \in DOMAIN c4.rows |-> ToDatetime(c4.rows[i]["InvoiceDate"])])
             c6 == Assign(c5, "Year", [i \in DOMAIN c5.rows |-> DtYear(c5.rows[i]["InvoiceDate"])])
             c7 == Assign(c6, "Month", [i \in DOMAIN c6.rows |-> DtMonth(c6.rows[i]["InvoiceDate"])])
         IN  Assign(c7, "TotalPrice",
                    [i \in 1..Len(c7.rows) |->
                        MulCells(c7.rows[i]["Quantity"], c7.rows[i]["UnitPrice"])])

\* The orders of df_clean.groupby('Country')['TotalPrice'].sum()
\*     .sort_values(ascending=False).head(10)
CountrySales(df_clean) ==
    {HeadN(sorted, TopN) : sorted \in
        SortValues(GroupSum(df_clean, "Country", "TotalPrice",
                            GroupKeysStr(df_clean, "Country")), FALSE)}

EcomViews(view_mode, df_original, df_clean, country_sales) ==
    [kind |-> "ecommerce",
     view_mode |-> view_mode,
     original_rows |-> Len(df_original.rows),
     cleaned_rows |-> Len(df_clean.rows),
     rows_removed |-> Len(df_original.rows) - Len(df_clean.rows),
     dups_clean |-> DuplicatedSum(df_clean),
     country_sales |-> country_sales,
     monthly_sales |-> GroupSum(df_clean, "Month", "TotalPrice",
                                GroupKeysInt(df_clean, "Month"))]

ViewModes == {"Original Data", "Cleaned Data", "Compare Both"}

\* One run of ecommerce_app.py.
EcomRun ==
    /\ app = "ecommerce"
    /\ MayParse
    /\ parses' = Parsed
    /\ UNCHANGED <<app, source, filtered_df, narrowed>>
    /\ LET df_original == IF cache = NotCached THEN EcomLoad(source) ELSE cache.original
           df_clean == IF cache.kind = "ecommerce" THEN cache.clean
                       ELSE IF IsFrame(df_original) THEN clean_data(df_original) ELSE None
       IN  IF ~IsFrame(df_original) THEN
                /\ status' = "FileNotFoundError"
                /\ UNCHANGED <<cache, widgets, views>>
           ELSE IF ~IsFrame(df_clean) THEN
                \* load_data returned and is memoised; clean_data raised
                /\ status' = "KeyError"
                /\ cache' = [kind |-> "loaded", original |-> df_original]
                /\ UNCHANGED <<widgets, views>>
           ELSE /\ cache' = [kind |-> "ecommerce", original |-> df_original,
                             clean |-> df_clean]
                /\ \E view_mode \in ViewModes :
                    /\ widgets' = [kind |-> "ecommerce", view_mode |-> view_mode]
                    /\ IF HasCol(df_clean, "Country")
                       THEN /\ status' = "ok"
                            /\ \E cs \in CountrySales(df_clean) :
                                views' = EcomViews(view_mode, df_original, df_clean, cs)
                       ELSE /\ status' = "KeyError"
                            /\ views' = NoViews

Apps == {"titanic", "netflix", "retail", "ecommerce"}
AppSources(a) ==
    IF a = "titanic" THEN Sources(TitanicColumns, TitanicDomain) \cup TitanicPieSources
    ELSE IF a = "netflix" THEN NetflixSources \cup NetflixTypeSources
    ELSE IF a = "retail" THEN RetailSources \cup RetailCorrSources \cup RetailProfitSources
    ELSE Sources(EcomColumns, EcomDomain) \cup EcomWideSources

Init ==
    /\ app \in Apps
    /\ source \in AppSources(app)
    /\ cache = NotCached
    /\ parses = 0
    /\ status = "idle"
    /\ widgets = NoWidgets
    /\ filtered_df = None
    /\ views = NoViews
    /\ narrowed = FALSE

Next ==
    \/ TitanicRun
    \/ NetflixRun
    \/ RetailNoFile
    \/ RetailFilterInteraction
    \/ RetailSwitchView
    \/ EcomRun

Spec == Init /\ [][Next]_vars
\* ====================================================== properties: filter
\* The loaded Table of a session is what the load function returned: the memo.
Loaded == cache
FilterApps == {"titanic", "netflix", "retail"}
Shown == IsFrame(filtered_df)

RECURSIVE IsSubseq(_, _)
IsSubseq(s, t) ==
    IF s = <<>> THEN TRUE
    ELSE IF t = <<>> THEN FALSE
    ELSE IF Head(s) = Head(t) THEN IsSubseq(Tail(s), Tail(t))
    ELSE IsSubseq(s, Tail(t))

\* C1: the filtered table is a sub-sequence of the loaded table: every row of
\* it is a row of the loaded table, none more often than there, in the
\* original relative order, under the same columns.
C1_FilteredIsSubsequence ==
    Shown => /\ IsFrame(Loaded)
             /\ filtered_df.columns = Loaded.columns
             /\ IsSubseq(filtered_df.rows, Loaded.rows)
\* A retail run that dropped the first of two different rows and kept the second.
C1_Witness ==
    /\ app = "retail" /\ Shown
    /\ Len(Loaded.rows) = 2 /\ Loaded.rows[1] # Loaded.rows[2]
    /\ filtered_df.rows = <<Loaded.rows[2]>>

\* The predicates of a dashboard, row by row, for the widget values w.
InRange(c, lo, hi) == c # NaN /\ \A v \in c : lo <= v /\ v <= hi
TitanicSexOk(r, w) == r["Sex"] \in w.gender_filter
TitanicClassOk(r, w) == r["Pclass"] \in w.class_filter
TitanicAgeOk(r, w) ==
    r["Age"] = NaN \/ InRange(r["Age"], w.age_min * AgeScale, w.age_max * AgeScale)
NetflixTypeOk(r, w) == r["type"] \in w.type_filter
NetflixYearOk(r, w) == InRange(r["release_year"], w.year_min, w.year_max)
NetflixRatingOk(r, w) == r["rating"] = NaN \/ r["rating"] \in w.rating_filter
DateActive(T, w) == HasCol(T, "Date") /\ Len(w.date_range) = 2
ProductActive(T) == HasCol(T, "Product line")
BranchActive(T) == HasCol(T, "Branch")
RetailDateOk(r, T, w) ==
    DateActive(T, w) =>
        /\ r["Date"] # NaN
        /\ \A d \in r["Date"] : /\ DayOfYear(w.date_range[1]) <= DayOfYear(d)
                                /\ DayOfYear(d) <= DayOfYear(w.date_range[2])
RetailProductOk(r, T, w) == ProductActive(T) => r["Product line"] \in w.product_lines
RetailBranchOk(r, T, w) == BranchActive(T) => r["Branch"] \in w.branches
\* The row r of the table T satisfies every active predicate.
SatisfiesAll(r, T, w) ==
    CASE app = "titanic" -> TitanicSexOk(r, w) /\ TitanicClassOk(r, w) /\ TitanicAgeOk(r, w)
      [] app = "netflix" -> NetflixTypeOk(r, w) /\ NetflixYearOk(r, w) /\ NetflixRatingOk(r, w)
      [] app = "retail" -> RetailDateOk(r, T, w) /\ RetailProductOk(r, T, w)
                           /\ RetailBranchOk(r, T, w)

\* C2: the predicates combine with AND: the filtered rows are exactly the rows
\* of the loaded table that satisfy every active predicate, for the combined
\* mask of Titanic and Netflix and for the three successive retail filters.
C2_RowsSatisfyingAll ==
    Shown => filtered_df.rows = SelectSeq(Loaded.rows, LAMBDA r : SatisfiesAll(r, Loaded, widgets))
\* A retail run with the three predicates active whose excluded row passes the
\* date and the product line predicate and fails only the branch predicate.
C2_Witness ==
    /\ app = "retail" /\ Shown
    /\ DateActive(Loaded, widgets) /\ ProductActive(Loaded) /\ BranchActive(Loaded)
    /\ Len(filtered_df.rows) = 1
    /\ \E i \in 1..Len(Loaded.rows) :
        /\ RetailDateOk(Loaded.rows[i], Loaded, widgets)
        /\ RetailProductOk(Loaded.rows[i], Loaded, widgets)
        /\ ~RetailBranchOk(Loaded.rows[i], Loaded, widgets)

\* What the load function of the dashboard returns for the source.
LoadOf(src) ==
    CASE app = "titanic" -> TitanicLoad(src)
      [] app = "netflix" -> NetflixLoad(src)
      [] app = "retail" -> RetailLoad(src)

\* C3: after any sequence of interactions the loaded table is still what load
\* returned for the source, and the filtered table shown is the filter of it
\* under the current widget values alone.
C3_ShownIsFilterOfLoaded ==
    /\ (app \in FilterApps /\ cache # NotCached) => cache = LoadOf(source)
    /\ Shown => filtered_df.rows =
                    SelectSeq(LoadOf(source).rows,
                              LAMBDA r : SatisfiesAll(r, LoadOf(source), widgets))
\* After a run that showed fewer rows, a run shows both rows of the source again.
C3_Witness ==
    /\ narrowed /\ Shown
    /\ Len(source.rows) = 2 /\ source.rows[1] # source.rows[2]
    /\ Len(filtered_df.rows) = 2

\* The predicates that are active in the last run.
ActivePredicates ==
    CASE app = "titanic" -> {"Sex", "Pclass", "Age"}
      [] app = "netflix" -> {"type", "release_year", "rating"}
      [] app = "retail" -> {c \in {"Date"} : DateActive(Loaded, widgets)}
                           \cup {c \in {"Product line"} : ProductActive(Loaded)}
                           \cup {c \in {"Branch"} : BranchActive(Loaded)}

\* C4: with no predicate active the filter is the identity: the filtered table
\* is the loaded table, same rows, same order, same columns.
C4_EmptyPredicateSetIdentity ==
    (Shown /\ ActivePredicates = {}) => filtered_df = Loaded
\* A retail run with no active predicate over two rows of different dates.
C4_Witness ==
    /\ app = "retail" /\ Shown /\ ActivePredicates = {}
    /\ Len(widgets.date_range) = 1
    /\ Len(Loaded.rows) = 2
    /\ Loaded.rows[1]["Date"] # Loaded.rows[2]["Date"]

\* The columns the filter step of the dashboard reads.
FilterColumns ==
    CASE app = "titanic" -> {"Sex", "Pclass", "Age"}
      [] app = "netflix" -> {"type", "release_year", "rating"}
      [] app = "retail" -> {"Date", "Product line", "Branch"}
      [] OTHER -> {}
\* C5: a predicate on a column that is absent from the loaded table is
\* skipped: the run over a table with rows, whose present filter columns all
\* hold a value, filters by the predicates on the present columns and raises
\* no error in the filter step.
C5_AbsentColumnSkipped ==
    (/\ app \in FilterApps /\ status # "idle" /\ IsFrame(Loaded)
     /\ Len(Loaded.rows) > 0
     /\ \E c \in FilterColumns : ~HasCol(Loaded, c)
     /\ \A c \in FilterColumns : HasCol(Loaded, c) =>
            \A i \in 1..Len(Loaded.rows) : Loaded.rows[i][c] # NaN)
    => Shown

Kept(r) == r \in Range(filtered_df.rows)
AllRows == IF IsFrame(Loaded) THEN Range(Loaded.rows) ELSE {}

\* C6: range predicates are inclusive on both ends: a kept row has its value
\* within [lo, hi] (or missing, where the predicate lets missing through), and
\* a row whose value is lo or hi is kept when it passes the other predicates.
C6_RangeInclusive ==
    Shown => \A r \in AllRows :
        CASE app = "titanic" ->
                /\ Kept(r) => TitanicAgeOk(r, widgets)
                /\ (/\ r["Age"] \in {Cell(widgets.age_min * AgeScale),
                                     Cell(widgets.age_max * AgeScale)}
                    /\ TitanicSexOk(r, widgets) /\ TitanicClassOk(r, widgets)) => Kept(r)
          [] app = "netflix" ->
                /\ Kept(r) => NetflixYearOk(r, widgets)
                /\ (/\ r["release_year"] \in {Cell(widgets.year_min), Cell(widgets.year_max)}
                    /\ NetflixTypeOk(r, widgets) /\ NetflixRatingOk(r, widgets)) => Kept(r)
          [] app = "retail" ->
                DateActive(Loaded, widgets) =>
                    /\ Kept(r) => RetailDateOk(r, Loaded, widgets)
                    /\ (/\ r["Date"] \in {Cell(widgets.date_range[1]),
                                          Cell(widgets.date_range[2])}
                        /\ RetailProductOk(r, Loaded, widgets)
                        /\ RetailBranchOk(r, Loaded, widgets)) => Kept(r)
\* A Titanic run with lo < hi that keeps a row whose age is exactly hi.
C6_Witness ==
    /\ app = "titanic" /\ Shown
    /\ widgets.age_min < widgets.age_max
    /\ \E r \in Range(filtered_df.rows) : r["Age"] = Cell(widgets.age_max * AgeScale)

OverviewShown == app = "retail" /\ status = "ok" /\ views.kind = "Overview"
TimeSeriesShown == app = "retail" /\ status = "ok" /\ views.kind = "Time Series"
TitanicShown == app = "titanic" /\ views.kind = "titanic"
NetflixShown == app = "netflix" /\ status = "ok"
EcomShown == app = "ecommerce" /\ status = "ok"

\* The distinct group keys present in the table T for the group-by column.
KeysPresent(T, by) == UNION {r[by] : r \in Range(T.rows)}
OneRowPerKey(entries, T, by) == Len(entries) = Cardinality(KeysPresent(T, by))
Least(a, b) == IF a < b THEN a ELSE b

\* The grouped summaries that are a groupby and a reduction, nothing more.
PlainSummariesOneRowPerKey ==
    /\ TitanicShown => OneRowPerKey(views.gender_survival, filtered_df, "Sex")
    /\ NetflixShown => OneRowPerKey(views.stats, filtered_df, "type")
    /\ OverviewShown =>
        /\ HasCol(filtered_df, "Product line") =>
                OneRowPerKey(views.product_revenue, filtered_df, "Product line")
        /\ HasCol(filtered_df, "Branch") =>
                OneRowPerKey(views.branch_revenue, filtered_df, "Branch")
        /\ OneRowPerKey(views.daily_sales, filtered_df, "Date")
    /\ TimeSeriesShown => OneRowPerKey(views.monthly_revenue, filtered_df, "Month")
    /\ EcomShown => OneRowPerKey(views.monthly_sales, cache.clean, "Month")

\* C8 as stated: every grouped summary, the day-of-week revenue summary and
\* the top-10 country summary included, has as many rows as the table has
\* distinct group keys.
C8_EverySummaryOneRowPerKey ==
    /\ PlainSummariesOneRowPerKey
    /\ TimeSeriesShown => OneRowPerKey(views.dow_data, filtered_df, "DayOfWeek")
    /\ EcomShown => OneRowPerKey(views.country_sales, cache.clean, "Country")

\* C8 amended: a plain grouped summary has as many rows as the table has
\* distinct group keys; the day-of-week summary always has the seven rows it
\* is reindexed to, and the top-10 country summary has the smaller of 10 and
\* the number of distinct countries.
C8_RowsPerSummary ==
    /\ PlainSummariesOneRowPerKey
    /\ TimeSeriesShown => Len(views.dow_data) = Len(DayNames)
    /\ EcomShown => Len(views.country_sales) =
                        Least(TopN, Cardinality(KeysPresent(cache.clean, "Country")))
\* An e-commerce run over more than ten countries: the chart has ten rows.
C8_Witness ==
    /\ EcomShown
    /\ Cardinality(KeysPresent(cache.clean, "Country")) > TopN
    /\ Len(views.country_sales) = TopN

KeysOf(entries) == [i \in 1..Len(entries) |-> entries[i].key]
\* The keys of the table in order of first appearance, row by row.
RECURSIVE FirstSeen(_, _, _)
FirstSeen(rows, by, seen) ==
    IF rows = <<>> THEN <<>>
    ELSE IF Head(rows)[by] = NaN \/ Head(rows)[by] \subseteq seen
         THEN FirstSeen(Tail(rows), by, seen)
         ELSE <<CHOOSE v \in Head(rows)[by] : TRUE>>
              \o FirstSeen(Tail(rows), by, seen \cup Head(rows)[by])
InFirstSeenOrder(entries, T, by) == KeysOf(entries) = FirstSeen(T.rows, by, {})
Ascending(entries, T, by) ==
    /\ Range(KeysOf(entries)) = KeysPresent(T, by)
    /\ \A i, j \in 1..Len(entries) :
            i < j => StrRank(entries[i].key) < StrRank(entries[j].key)

\* C9 as stated: aggregate emits its groups in first-seen order of the keys.
C9_GroupsInFirstSeenOrder ==
    /\ TitanicShown => InFirstSeenOrder(views.gender_survival, filtered_df, "Sex")
    /\ NetflixShown => InFirstSeenOrder(views.stats, filtered_df, "type")
    /\ (OverviewShown /\ HasCol(filtered_df, "Branch")) =>
            InFirstSeenOrder(views.branch_revenue, filtered_df, "Branch")

\* C9 amended: aggregate emits its groups in ascending order of the group
\* key, whatever the order of the rows: one group per key present.
C9_GroupsInKeyOrder ==
    /\ TitanicShown => Ascending(views.gender_survival, filtered_df, "Sex")
    /\ NetflixShown => Ascending(views.stats, filtered_df, "type")
    /\ (OverviewShown /\ HasCol(filtered_df, "Branch")) =>
            Ascending(views.branch_revenue, filtered_df, "Branch")
\* A Titanic run whose rows are a man, then a woman: the summary lists
\* female before male.
C9_Witness ==
    /\ TitanicShown
    /\ Len(filtered_df.rows) = 2
    /\ filtered_df.rows[1]["Sex"] = Cell("male")
    /\ filtered_df.rows[2]["Sex"] = Cell("female")
    /\ KeysOf(views.gender_survival) = <<"female", "male">>

RECURSIVE SumOver(_, _)
SumOver(I, f) ==
    IF I = {} THEN 0
    ELSE LET i == CHOOSE x \in I : TRUE IN f[i] + SumOver(I \ {i}, f)
\* The rows of the group k that hold a value in the metric column, and the
\* arithmetic sum of these values.
GroupValued(T, by, metric, k) ==
    {i \in 1..Len(T.rows) : T.rows[i][by] = {k} /\ T.rows[i][metric] # NaN}
GroupTotal(T, by, metric, k) ==
    SumOver(GroupValued(T, by, metric, k),
            [i \in GroupValued(T, by, metric, k) |-> CHOOSE v \in T.rows[i][metric] : TRUE])
SumsRight(entries, T, by, metric) ==
    \A i \in 1..Len(entries) :
        entries[i].value = GroupTotal(T, by, metric, entries[i].key)

\* C10: every sum a sum aggregation reports for a group is the arithmetic sum
\* of the non-missing metric values of exactly the rows of that group.
C10_GroupSums ==
    /\ OverviewShown =>
        /\ HasCol(filtered_df, "Product line") =>
                SumsRight(views.product_revenue, filtered_df, "Product line", "Total")
        /\ HasCol(filtered_df, "Branch") =>
                SumsRight(views.branch_revenue, filtered_df, "Branch", "Total")
        /\ SumsRight(views.daily_sales, filtered_df, "Date", "Total")
    /\ TimeSeriesShown =>
        /\ SumsRight(views.monthly_revenue, filtered_df, "Month", "Total")
        /\ \A i \in 1..Len(views.dow_data) :
                \A v \in views.dow_data[i].value :
                    v = GroupTotal(filtered_df, "DayOfWeek", "Total", views.dow_data[i].key)
    /\ EcomShown =>
        /\ SumsRight(views.country_sales, cache.clean, "Country", "TotalPrice")
        /\ SumsRight(views.monthly_sales, cache.clean, "Month", "TotalPrice")
\* An e-commerce run where a country has a row without total price and a row
\* with one: the sum reported for the country is the one total price.
C10_Witness ==
    /\ EcomShown
    /\ \E i \in 1..Len(views.country_sales) :
        /\ views.country_sales[i].value > 0
        /\ \E r \in Range(cache.clean.rows) :
            r["Country"] = {views.country_sales[i].key} /\ r["TotalPrice"] = NaN

\* ================================================== properties: reductions
ProductAnalysisShown ==
    /\ app = "retail" /\ status = "ok" /\ views.kind = "Product Analysis"
    /\ "product_stats" \in DOMAIN views
RowIndices(T) == 1..Len(T.rows)
GroupIndices(T, by, k) == {i \in RowIndices(T) : T.rows[i][by] = {k}}
Valued(T, c, I) == {i \in I : T.rows[i][c] # NaN}
TotalOver(T, c, I) == SumOver(I, [i \in I |-> CHOOSE v \in T.rows[i][c] : TRUE])
\* m is the mean of column c over the rows I of T: the sum of the non-missing
\* values over their number, missing when there is none.
IsMeanOf(m, T, c, I) ==
    IF Valued(T, c, I) = {} THEN m = NaN
    ELSE m = {<<TotalOver(T, c, Valued(T, c, I)), Cardinality(Valued(T, c, I))>>}
\* m is that mean in hundredths, rounded to a nearest whole hundredth.
IsRoundedMeanOf(m, T, c, I) ==
    IF Valued(T, c, I) = {} THEN m = NaN
    ELSE /\ m # NaN
         /\ \A q \in m :
                LET d == 100 * TotalOver(T, c, Valued(T, c, I)) - q * Cardinality(Valued(T, c, I))
                IN  2 * d <= Cardinality(Valued(T, c, I)) /\ 0 - 2 * d <= Cardinality(Valued(T, c, I))

\* C11: every mean the dashboards report, scalar or per group, is the sum of
\* the non-missing values divided by the number of non-missing values, not by
\* the number of rows.
C11_MeanOverNonMissing ==
    /\ TitanicShown =>
        /\ IsMeanOf(views.avg_age, filtered_df, "Age", RowIndices(filtered_df))
        /\ IsMeanOf(views.survival_rate, filtered_df, "Survived", RowIndices(filtered_df))
        /\ \A i \in 1..Len(views.gender_survival) :
                IsMeanOf(views.gender_survival[i].value, filtered_df, "Survived",
                         GroupIndices(filtered_df, "Sex", views.gender_survival[i].key))
    /\ NetflixShown =>
        \A i \in 1..Len(views.stats) :
            IsMeanOf(views.stats[i].Avg_Year, filtered_df, "release_year",
                     GroupIndices(filtered_df, "type", views.stats[i].key))
    /\ OverviewShown =>
        /\ IsMeanOf(views.avg_transaction, filtered_df, "Total", RowIndices(filtered_df))
        /\ IsMeanOf(views.avg_rating, filtered_df, "Rating", RowIndices(filtered_df))
    /\ ProductAnalysisShown =>
        /\ \A i \in 1..Len(views.product_stats) :
            LET I == GroupIndices(filtered_df, "Product line", views.product_stats[i].key) IN
            /\ IsRoundedMeanOf(views.product_stats[i].Avg_Sale, filtered_df, "Total", I)
            /\ IsRoundedMeanOf(views.product_stats[i].Avg_Rating, filtered_df, "Rating", I)
        /\ \A i \in 1..Len(views.rating_data) :
            IsMeanOf(views.rating_data[i].value, filtered_df, "Rating",
                     GroupIndices(filtered_df, "Product line", views.rating_data[i].key))
\* A Titanic run showing a passenger without age and one with: the average
\* age is the one age.
C11_Witness ==
    /\ TitanicShown
    /\ Len(filtered_df.rows) = 2
    /\ \E i, j \in 1..2 :
        /\ filtered_df.rows[i]["Age"] = NaN
        /\ filtered_df.rows[j]["Age"] = Cell(AgeScale)
    /\ views.avg_age = Cell(<<AgeScale, 1>>)

SumValues(entries) == SumOver(1..Len(entries), [i \in 1..Len(entries) |-> entries[i].value])
\* Each entry reports the number of rows of T whose by cell is the entry's key.
RowCounts(entries, T, by) ==
    \A i \in 1..Len(entries) :
        entries[i].value = Cardinality(GroupIndices(T, by, entries[i].key))
\* Each entry reports the number of rows of its group whose c cell is present.
NetflixCountsRight ==
    /\ \A i \in 1..Len(views.stats) :
        views.stats[i].Total =
            Cardinality(Valued(filtered_df, "show_id",
                               GroupIndices(filtered_df, "type", views.stats[i].key)))
    /\ RowCounts(views.type_counts, filtered_df, "type")
    /\ RowCounts(views.added, filtered_df, "year_added")
    /\ \A i \in 1..Len(views.yearly) :
        views.yearly[i].value =
            Cardinality({j \in RowIndices(filtered_df) :
                            /\ filtered_df.rows[j]["release_year"] = {views.yearly[i].key[1]}
                            /\ filtered_df.rows[j]["type"] = {views.yearly[i].key[2]}})
RetailCountsRight ==
    \A i \in 1..Len(views.product_stats) :
        views.product_stats[i].Transactions =
            Cardinality(Valued(filtered_df, "Total",
                               GroupIndices(filtered_df, "Product line",
                                            views.product_stats[i].key)))

CorrelationsShown ==
    /\ app = "retail" /\ status = "ok" /\ views.kind = "Correlations"
    /\ "strong_corr" \in DOMAIN views
\* The square of the coefficient c against the square of 0.7.
AboveSevenTenths(c) == c # NaN /\ \A v \in c : 100 * v.num * v.num > 49 * v.den2
ColumnPosition(T, c) == CHOOSE i \in 1..Len(T.columns) : T.columns[i] = c

C14_PairsByDescendingCoefficient ==
    CorrelationsShown =>
        /\ \A i, j \in 1..Len(views.strong_corr) :
            i < j => \A a \in views.strong_corr[i].Correlation,
                        b \in views.strong_corr[j].Correlation :
                        a.num * a.num * b.den2 >= b.num * b.num * a.den2
        /\ \A i \in 1..Len(views.strong_corr) :
            ColumnPosition(filtered_df, views.strong_corr[i].Variable_1)
                < ColumnPosition(filtered_df, views.strong_corr[i].Variable_2)
\* The part of C14 the code keeps: in each pair the first column precedes the
\* second in the column order of the table.
C14_FirstColumnPrecedesSecond ==
    CorrelationsShown =>
        \A i \in 1..Len(views.strong_corr) :
            ColumnPosition(filtered_df, views.strong_corr[i].Variable_1)
                < ColumnPosition(filtered_df, views.strong_corr[i].Variable_2)

\* ================================================== properties: multi-value
\* The places of the names in the text of a cell: not the delimiters.
NamePlaces(text) == {k \in 1..Len(text) : text[k] # ", "}
\* The number of (row, name) occurrences in column c of T, and of one name v.
NamesTotal(T, c) ==
    SumOver(Valued(T, c, RowIndices(T)),
            [i \in Valued(T, c, RowIndices(T)) |->
                Cardinality(UNION {NamePlaces(t) : t \in T.rows[i][c]})])
NameOccurrences(T, c, v) ==
    Cardinality({p \in RowIndices(T) \X (1..3) :
                    \E t \in T.rows[p[1]][c] : p[2] <= Len(t) /\ t[p[2]] = v})
MissingEntries(series) == {i \in 1..Len(series) : series[i] = NaN}
FrequenciesRight(entries, T, c) ==
    \A i \in 1..Len(entries) : entries[i].value = NameOccurrences(T, c, entries[i].key)

C16_MissingCellsNoEntry ==
    NetflixShown =>
        /\ MissingEntries(views.countries_series) = {}
        /\ Len(views.countries_series) = NamesTotal(filtered_df, "country")
        /\ MissingEntries(views.genres) = {}
        /\ Len(views.genres) = NamesTotal(filtered_df, "listed_in")

\* C16 amended: a row whose country is missing contributes no entry to the
\* exploded countries; a row whose listed_in is missing contributes one
\* missing entry to the exploded genres; neither contributes to a frequency
\* count.
C16_MissingCellsNotCounted ==
    NetflixShown =>
        /\ MissingEntries(views.countries_series) = {}
        /\ Len(views.countries_series) = NamesTotal(filtered_df, "country")
        /\ Cardinality(MissingEntries(views.genres))
                = Len(filtered_df.rows)
                  - Cardinality(Valued(filtered_df, "listed_in", RowIndices(filtered_df)))
        /\ SumValues(views.top_countries) = NamesTotal(filtered_df, "country")
        /\ SumValues(views.top_genres) = NamesTotal(filtered_df, "listed_in")
\* A Netflix run showing a title without country and a title without
\* listed_in: no missing entry among the countries, one among the genres,
\* none counted.
C16_Witness ==
    /\ NetflixShown
    /\ \E i, j \in RowIndices(filtered_df) :
        /\ filtered_df.rows[i]["country"] = NaN
        /\ filtered_df.rows[j]["listed_in"] = NaN
    /\ MissingEntries(views.countries_series) = {}
    /\ Cardinality(MissingEntries(views.genres)) = 1
    /\ SumValues(views.top_genres) = Len(views.genres) - 1

\* ================================================== properties: load errors
\* The columns a dashboard reads without a guard on every run: the Titanic
\* sidebar and the retail date filter and overview.
RequiredColumns ==
    CASE app = "titanic" -> {"Sex", "Pclass", "Age"}
      [] app = "retail" -> {"Date", "Total"}
      [] OTHER -> {}
RequiredAbsent ==
    source.kind = "Csv" /\ \E c \in RequiredColumns : c \notin Range(source.columns)
Ran == status \notin {"idle", "NoFile"}

\* C17: whenever the source is unreadable or lacks a column the dashboard
\* requires ('Date' or 'Total' for retail, 'Sex', 'Pclass' or 'Age' for
\* Titanic), load returns no table but a load error, and the run that called it
\* ends with that load error shown rather than with an uncaught exception.
C17_LoadFailsOnAbsentRequiredColumn ==
    (app \in {"titanic", "retail"} /\ Ran
        /\ (source.kind = "Unreadable" \/ RequiredAbsent))
    => /\ ~IsFrame(LoadOf(source))
       /\ status \in {"LoadError", "FileNotFoundError"}

\* The load function of the run returned no table.
LoadFailed ==
    IF app = "ecommerce" THEN ~IsFrame(EcomLoad(source)) ELSE ~IsFrame(LoadOf(source))
\* What a run shows for a failed load: the exception of load_data in place of
\* the page, or the st.error message of the retail load_data.
LoadErrorMessages == {"FileNotFoundError", "KeyError", "LoadError"}
FilterControls ==
    {"gender_filter", "class_filter", "age_min", "age_max",
     "type_filter", "year_min", "year_max", "rating_filter",
     "date_range", "product_lines", "branches", "page", "view_mode"}

\* C18: in a run where load fails, the error is shown as a message and the run
\* stops there: no filter control is drawn, no table is filtered and no
\* aggregation or view is computed.
C18_LoadErrorAbortsRun ==
    (Ran /\ LoadFailed)
    => /\ status \in LoadErrorMessages
       /\ DOMAIN widgets \cap FilterControls = {}
       /\ filtered_df = None
       /\ views = NoViews
\* A retail file with sales but without a Date column was uploaded: the run
\* shows the error and the uploader, and nothing else.
C18_Witness ==
    /\ app = "retail" /\ source.kind = "Csv" /\ "Date" \notin Range(source.columns)
    /\ "Total" \in Range(source.columns) /\ Len(source.rows) > 0
    /\ status = "LoadError" /\ widgets = RetailNoControls /\ views = NoViews

\* ============================================ properties: absent columns
\* The columns each aggregate of the Product Analysis page groups by and
\* reduces.
AggregateColumns ==
    [product_stats |-> {"Product line", "Total", "Quantity", "Rating"},
     profit_data |-> {"Product line", "Total", "cogs", "gross income"},
     qty_data |-> {"Product line", "Quantity"},
     rating_data |-> {"Product line", "Rating"}]
ProductAnalysisRan ==
    /\ app = "retail" /\ Ran /\ IsFrame(filtered_df)
    /\ views.kind = "Product Analysis"
Absent(cols) == \E c \in cols : ~HasCol(filtered_df, c)

ViewHitsAbsentColumn ==
    CASE widgets.page \in {"Overview", "Time Series"} -> Absent({"Total"})
      [] widgets.page = "Product Analysis" ->
            \/ Absent(AggregateColumns.product_stats)
            \/ (HasCol(filtered_df, "gross income") /\ ~HasCol(filtered_df, "cogs"))
      [] OTHER -> FALSE
RetailViewRan ==
    /\ app = "retail" /\ Ran /\ IsFrame(filtered_df) /\ "page" \in DOMAIN widgets

\* C20: when a view reads a column the table does not have, the run does not
\* end in an error: the view shows a warning in place of the chart or table.
C20_AbsentColumnWarns ==
    (RetailViewRan /\ ViewHitsAbsentColumn)
    => (status = "ok" /\ "warning" \in DOMAIN views)
\* The other half of C20: after a view has failed on an absent column, a
\* page can still be selected (the session goes on).
C20_SessionGoesOn ==
    (RetailViewRan /\ status = "KeyError") => ENABLED RetailSwitchView

\* ================================================== properties: empty result
\* The columns of the dashboard's data set that the model follows.
AppColumns ==
    CASE app = "titanic" -> TitanicColumns
      [] app = "netflix" -> NetflixColumns
      [] app = "retail" -> RetailColumns
      [] OTHER -> <<>>
\* The filters of the run left no row of a table that has rows and lacks no
\* column.
EmptyResult ==
    /\ app \in FilterApps /\ Ran /\ Shown /\ IsFrame(cache)
    /\ Len(cache.rows) > 0 /\ Len(filtered_df.rows) = 0
    /\ Range(AppColumns) \subseteq Range(filtered_df.columns)

\* C21: when the filter combination yields zero rows no view fails: the run
\* ends without an error, every view rendered.
C21_EmptyResultDegrades == EmptyResult => status = "ok"

\* ======================================================== properties: memo
\* What the memo holds is what the load function (and clean_data) returns for
\* the source.
MemoIsLoadResult ==
    /\ (app \in FilterApps /\ cache # NotCached) => cache = LoadOf(source)
    /\ (app = "ecommerce" /\ cache # NotCached) =>
        /\ cache.original = EcomLoad(source)
        /\ cache.kind = "ecommerce" => cache.clean = clean_data(cache.original)

DerivedRight(c) ==
    /\ (app = "retail" /\ IsFrame(c)) =>
        /\ {"Year", "Month", "Month_Name", "Day", "DayOfWeek"} \subseteq Range(c.columns)
        /\ \A i \in 1..Len(c.rows) :
            /\ c.rows[i]["Year"] = DtYear(c.rows[i]["Date"])
            /\ c.rows[i]["Month"] = DtMonth(c.rows[i]["Date"])
            /\ c.rows[i]["Month_Name"] = DtMonthName(c.rows[i]["Date"])
            /\ c.rows[i]["Day"] = DtDay(c.rows[i]["Date"])
            /\ c.rows[i]["DayOfWeek"] = DtDayName(c.rows[i]["Date"])
    /\ (app = "netflix" /\ IsFrame(c)) =>
        /\ "year_added" \in Range(c.columns)
        /\ \A i \in 1..Len(c.rows) : c.rows[i]["year_added"] = DtYear(c.rows[i]["date_added"])
    /\ (app = "ecommerce" /\ c.kind = "ecommerce") =>
        /\ {"Year", "Month", "TotalPrice"} \subseteq Range(c.clean.columns)
        /\ \A i \in 1..Len(c.clean.rows) :
            /\ c.clean.rows[i]["Year"] = DtYear(c.clean.rows[i]["InvoiceDate"])
            /\ c.clean.rows[i]["Month"] = DtMonth(c.clean.rows[i]["InvoiceDate"])
            /\ c.clean.rows[i]["TotalPrice"] =
                    MulCells(c.clean.rows[i]["Quantity"], c.clean.rows[i]["UnitPrice"])

\* C23: the derived columns are computed by load and immutable afterwards:
\* no run changes the loaded table once it is memoised, its derived values
\* are those derived at load, and the table a run filters and shows has the
\* columns of the loaded table and only rows of it, unchanged.
C23_LoadedTableImmutable ==
    [][/\ cache # NotCached => cache' = cache
       /\ DerivedRight(cache')
       /\ (IsFrame(cache') /\ IsFrame(filtered_df')) =>
            /\ filtered_df'.columns = cache'.columns
            /\ Range(filtered_df'.rows) \subseteq Range(cache'.rows)]_vars
\* A retail session whose filters once narrowed the table and that now
\* shows the monthly view of some of its rows.
C23_Witness ==
    /\ app = "retail" /\ IsFrame(cache) /\ Shown /\ narrowed /\ parses = 1
    /\ status = "ok" /\ views.kind = "Time Series"
    /\ Len(filtered_df.rows) > 0 /\ Len(filtered_df.rows) < Len(cache.rows)

\* ================================================= several browser sessions
\* Streamlit serves every browser session with its own script runs, its own
\* widget values and its own local variables; the st.cache_data memo belongs
\* to the server process and is the one thing the sessions have in common.
\* Here status, widgets, filtered_df and views hold one value per session,
\* and the sessions run the retail dashboard on uploads of the same file.
Sessions == {1, 2}
\* A file of two sales of different product lines on two consecutive days.
SessionTable ==
    Csv(<<"Product line", "Total", "Date", "Quantity", "Rating">>,
        [i \in 1..2 |->
            ("Product line" :> Cell(<<"Health and beauty", "Electronic accessories">>[i])) @@
            ("Total" :> Cell(<<2, 3>>[i])) @@ ("Quantity" :> Cell(1)) @@
            ("Date" :> Cell(<<<<1, 31, 2019>>, <<2, 1, 2019>>>>[i])) @@
            ("Rating" :> Cell(<<7, 9>>[i]))])
SessionSources == {SessionTable}

SessionsInit ==
    /\ app = "retail"
    /\ source \in SessionSources
    /\ cache = NotCached
    /\ parses = 0
    /\ narrowed = FALSE
    /\ status = [s \in Sessions |-> "idle"]
    /\ widgets = [s \in Sessions |-> NoWidgets]
    /\ filtered_df = [s \in Sessions |-> None]
    /\ views = [s \in Sessions |-> NoViews]

\* main() of a run of session s from "Load data" on, for the widget values w.
SessionMain(s, w) ==
    LET df == IF cache = NotCached THEN RetailLoad(source) ELSE cache IN
    /\ IF ~IsFrame(df) THEN
            /\ widgets' = [widgets EXCEPT ![s] = RetailNoControls]
            /\ status' = [status EXCEPT ![s] = "LoadError"]
            /\ filtered_df' = [filtered_df EXCEPT ![s] = None]
            /\ views' = [views EXCEPT ![s] = NoViews]
       ELSE /\ widgets' = [widgets EXCEPT ![s] = w]
            /\ filtered_df' = [filtered_df EXCEPT ![s] = RetailFiltered(df, w)]
            /\ \E o \in RetailPageOutcomes(filtered_df'[s], w.page) :
                    /\ status' = [status EXCEPT ![s] = o.status]
                    /\ views' = [views EXCEPT ![s] = o.views]
    /\ cache' = Memo(df, filtered_df'[s])
    /\ narrowed' = Narrowed(df, filtered_df'[s])

\* Session s changes a filter widget: its script runs again.
SessionFilterInteraction(s) ==
    /\ MayParse
    /\ parses' = Parsed
    /\ UNCHANGED <<app, source>>
    /\ LET df == IF cache = NotCached THEN RetailLoad(source) ELSE cache
           page == IF "page" \in DOMAIN widgets[s] THEN widgets[s].page ELSE Pages[1]
       IN  IF ~IsFrame(df)
           THEN SessionMain(s, [kind |-> "retail", uploaded |-> TRUE, date_range |-> <<>>,
                                product_lines |-> {}, branches |-> {}, page |-> page])
           ELSE IF Len(df.rows) = 0
           THEN /\ cache' = df
                /\ UNCHANGED narrowed
                /\ status' = [status EXCEPT ![s] = "ValueError"]
                /\ widgets' = [widgets EXCEPT ![s] = RetailNoControls]
                /\ filtered_df' = [filtered_df EXCEPT ![s] = None]
                /\ views' = [views EXCEPT ![s] = NoViews]
           ELSE \E c \in RetailFilterChoices(df) : SessionMain(s, RetailWidgets(c, page))

\* Session s selects another page.
SessionSwitchView(s) ==
    /\ status[s] \in {"ok", "KeyError"}
    /\ MayParse
    /\ parses' = Parsed
    /\ UNCHANGED <<app, source>>
    /\ \E page \in Range(Pages) : SessionMain(s, [widgets[s] EXCEPT !.page = page])

SessionsNext ==
    \E s \in Sessions : SessionFilterInteraction(s) \/ SessionSwitchView(s)

SessionsSpec == SessionsInit /\ [][SessionsNext]_vars

\* What session s observes.
Observed(s) == <<status[s], widgets[s], filtered_df[s], views[s]>>

\* C24: with sessions interleaving their interactions over the shared memo,
\* the table every run loads is the load result of the source whatever the
\* other sessions selected, what a session shows after a step is the filter
\* of that table under its own widget values and the selected page's view of
\* it, and a step changes what one session observes at most.
C24_SessionsIsolated ==
    [][/\ IsFrame(cache') => cache' = RetailLoad(source)
       /\ \A s \in Sessions : IsFrame(filtered_df'[s]) =>
            /\ filtered_df'[s] = RetailFiltered(RetailLoad(source), widgets'[s])
            /\ [status |-> status'[s], views |-> views'[s]]
                    \in RetailPageOutcomes(filtered_df'[s], widgets'[s].page)
       /\ \A s, t \in Sessions :
            s # t => (Observed(s)' = Observed(s) \/ Observed(t)' = Observed(t))]_vars
\* One session shows a narrowed table while the other shows every row of the
\* same memoised table.
C24_Witness ==
    /\ DOMAIN status = Sessions /\ IsFrame(cache) /\ parses = 1
    /\ \E s, t \in Sessions :
        /\ s # t /\ status[s] = "ok" /\ status[t] = "ok"
        /\ IsFrame(filtered_df[s]) /\ IsFrame(filtered_df[t])
        /\ Len(filtered_df[s].rows) = 1
        /\ filtered_df[t].rows = cache.rows /\ Len(cache.rows) = 2
        /\ views[s].kind = "Overview" /\ views[t].kind = "Product Analysis"

\* ========================================================= properties: export
RawDataShown == app = "retail" /\ Ran /\ Shown /\ views.kind = "Raw Data"

\* C25: the exported CSV has, after its header line, one line per row of the
\* filtered table in the table's row order; the header is the list of the
\* table's columns, derived columns included, in the table's column order;
\* and field j of line i is the text of the cell of row i in column j.
C25_ExportIsFilteredTable ==
    RawDataShown =>
        /\ Len(views.csv) = 1 + Len(filtered_df.rows)
        /\ views.csv[1] = filtered_df.columns
        /\ \A i \in 1..Len(filtered_df.rows) :
            /\ Len(views.csv[i + 1]) = Len(filtered_df.columns)
            /\ \A j \in 1..Len(filtered_df.columns) :
                views.csv[i + 1][j] =
                    CsvField(filtered_df.columns[j], filtered_df.rows[i][filtered_df.columns[j]])
\* The Raw Data page of a session whose filters kept one row of two, the
\* second: the file has the header with the derived columns and that row.
C25_Witness ==
    /\ RawDataShown /\ IsFrame(cache) /\ Len(cache.rows) = 2
    /\ filtered_df.rows = <<cache.rows[2]>> /\ cache.rows[1] # cache.rows[2]
    /\ HasCol(filtered_df, "Month_Name") /\ HasCol(filtered_df, "Total")
    /\ Len(views.csv) = 2

\* ============================================================ properties: pie
\* The number of filtered rows with the given outcome.
Outcomes(v) == Cardinality({i \in 1..Len(filtered_df.rows) :
                                filtered_df.rows[i]["Survived"] = Cell(v)})
PieRan ==
    /\ app = "titanic" /\ Ran /\ Shown /\ HasCol(filtered_df, "Survived")
    /\ Len(filtered_df.rows) > 0

\* C26: for every filter setting that leaves rows, the pie is drawn, its
\* slice labelled 'Survived' carries the number of filtered rows with
\* Survived = 1 and its slice labelled 'Did Not Survive' the number with
\* Survived = 0.
C26_PieSlicesLabelledRight ==
    PieRan =>
        /\ "pie" \in DOMAIN views
        /\ \A i \in 1..Len(views.pie) :
            /\ views.pie[i].label = "Survived" => views.pie[i].value = Outcomes(1)
            /\ views.pie[i].label = "Did Not Survive" => views.pie[i].value = Outcomes(0)
\* The same restricted to the runs that drew the pie.
C26_DrawnPieLabelledRight ==
    (PieRan /\ "pie" \in DOMAIN views) =>
        \A i \in 1..Len(views.pie) :
            /\ views.pie[i].label = "Survived" => views.pie[i].value = Outcomes(1)
            /\ views.pie[i].label = "Did Not Survive" => views.pie[i].value = Outcomes(0)

\* ======================================================= properties: cleaning
CleanedShown == app = "ecommerce" /\ status = "ok" /\ cache.kind = "ecommerce"

\* C27: the cleaned table has no two identical rows ('Duplicates (Cleaned)'
\* is 0) and no row with a missing CustomerID, and it has at most as many
\* rows as the input ('Rows Removed' is not negative).
C27_CleanedHasNoDuplicates ==
    CleanedShown =>
        /\ \A i, j \in 1..Len(cache.clean.rows) :
                i # j => cache.clean.rows[i] # cache.clean.rows[j]
        /\ views.dups_clean = 0
        /\ \A i \in 1..Len(cache.clean.rows) : ~isna(cache.clean.rows[i]["CustomerID"])
        /\ views.rows_removed >= 0
\* The parts of C27 that do not concern duplicates.
C27_CleanedHasCustomersAndNoMoreRows ==
    CleanedShown =>
        /\ \A i \in 1..Len(cache.clean.rows) : ~isna(cache.clean.rows[i]["CustomerID"])
        /\ views.rows_removed >= 0
        /\ Len(cache.clean.rows) <= Len(cache.original.rows)

\* ======================================================= properties: sliders
\* The range slider of the run stands at its widest: at min_value and
\* max_value, the integer parts of the column's minimum and maximum.
TitanicWidest ==
    /\ app = "titanic" /\ Ran /\ Shown /\ IsFrame(cache)
    /\ widgets.age_min = IntOf(Val(SeriesMin(Col(cache, "Age"))), AgeScale)
    /\ widgets.age_max = IntOf(Val(SeriesMax(Col(cache, "Age"))), AgeScale)
NetflixWidest ==
    /\ app = "netflix" /\ Ran /\ Shown /\ IsFrame(cache)
    /\ widgets.year_min = Val(SeriesMin(Col(cache, "release_year")))
    /\ widgets.year_max = Val(SeriesMax(Col(cache, "release_year")))

C28_YearsAndYoungestWithinWidest ==
    /\ TitanicWidest =>
        \A i \in 1..Len(cache.rows) : ~isna(cache.rows[i]["Age"]) =>
            widgets.age_min * AgeScale <= Val(cache.rows[i]["Age"])
    /\ NetflixWidest =>
        \A i \in 1..Len(cache.rows) : ~isna(cache.rows[i]["release_year"]) =>
            /\ widgets.year_min <= Val(cache.rows[i]["release_year"])
            /\ Val(cache.rows[i]["release_year"]) <= widgets.year_max

\* ===================================================== properties: dispatch
RetailRendered == app = "retail" /\ views.kind \in Range(Pages)

\* C29: in the retail dashboard a run renders at most one of the six views,
\* the one of the selected page, from the filtered table; a view is rendered
\* only when a file is uploaded and the load returned a table, and a run with
\* no file loads, filters and renders nothing.
C29_OnlySelectedViewOverFilteredTable ==
    app = "retail" =>
        /\ views.kind \in {"None"} \cup Range(Pages)
        /\ RetailRendered =>
              /\ widgets.uploaded /\ "page" \in DOMAIN widgets
              /\ views.kind = widgets.page
              /\ IsFrame(cache) /\ parses = 1
              /\ filtered_df = RetailFiltered(cache, widgets)
              /\ [status |-> status, views |-> views]
                    \in RetailPageOutcomes(filtered_df, widgets.page)
        /\ status = "NoFile" =>
              /\ cache = NotCached /\ parses = 0
              /\ filtered_df = None /\ views = NoViews
        /\ status = "LoadError" => filtered_df = None /\ views = NoViews

\* A page other than the first is rendered from a table the filters narrowed.
C29_Witness ==
    /\ RetailRendered /\ status = "ok"
    /\ widgets.page = "Raw Data" /\ views.kind = "Raw Data"
    /\ narrowed
    /\ Len(filtered_df.rows) > 0

\* ================================================== properties: key metrics
MetricsShown == app = "netflix" /\ views.kind = "netflix" /\ Shown
CardTypes == {Cell("Movie"), Cell("TV Show")}
OfCardTypes(fdf) == {i \in 1..Len(fdf.rows) : fdf.rows[i]["type"] \in CardTypes}

\* C30: in the Netflix key metrics the 'Movies' count plus the 'TV Shows'
\* count equals the 'Total Titles' count of the filtered table, for every
\* filter setting.
C30_MoviesPlusShowsIsTotal ==
    MetricsShown => views.movies + views.tv_shows = views.total

\* C30, amended: the two counts add up to the number of filtered rows whose
\* type is 'Movie' or 'TV Show', which is the total when no filtered row has
\* another type; the total is the number of rows of the filtered table.
C30_MoviesPlusShowsIsTotalOfTheTwoTypes ==
    MetricsShown =>
        /\ views.total = Len(filtered_df.rows)
        /\ views.movies + views.tv_shows = Cardinality(OfCardTypes(filtered_df))
        /\ views.movies + views.tv_shows <= views.total
        /\ Cardinality(OfCardTypes(filtered_df)) = Len(filtered_df.rows)
                => views.movies + views.tv_shows = views.total

\* A movie, a TV show and a title of a third type pass the filters.
C30_Witness ==
    /\ MetricsShown
    /\ views.movies = 1 /\ views.tv_shows = 1 /\ views.total = 3

====
